---------------------------- MODULE Spec2Model ----------------------------
(***************************************************************************)
(* Hyper-V management library (crates/libs/hyperv): VM lifecycle           *)
(* controller, job monitor, resource provisioning and checkpoint manager,  *)
(* as state machines over the WMI gateway.  A call is a sequence of steps, *)
(* one per gateway round trip; the gateway's answers are chosen            *)
(* nondeterministically.                                                   *)
(***************************************************************************)
EXTENDS Integers, Sequences, FiniteSets, TLC

(***************************************************************************)
(* WMI property values (wmi/variant.rs): a VARIANT is null/empty, of a     *)
(* type the reader does not accept, or a value.                            *)
(***************************************************************************)
Null == [t |-> "null", v |-> 0]
Bad == [t |-> "bad", v |-> 0]
Val(n) == [t |-> "val", v |-> n]
SNull == [t |-> "null", v |-> ""]
SBad == [t |-> "bad", v |-> ""]
SVal(s) == [t |-> "val", v |-> s]

U16 == 65536

\* FromVariant for u32: Err(TypeConversion) | Ok(None) | Ok(Some(v)).
get_u32(p) ==
    IF p.t = "bad" THEN [err |-> TRUE, some |-> FALSE, v |-> 0]
    ELSE IF p.t = "null" THEN [err |-> FALSE, some |-> FALSE, v |-> 0]
    ELSE [err |-> FALSE, some |-> TRUE, v |-> p.v]

\* FromVariant for u16: a 32-bit VARIANT is narrowed with `as u16`.
get_u16(p) ==
    IF p.t = "bad" THEN [err |-> TRUE, some |-> FALSE, v |-> 0]
    ELSE IF p.t = "null" THEN [err |-> FALSE, some |-> FALSE, v |-> 0]
    ELSE [err |-> FALSE, some |-> TRUE, v |-> p.v % U16]

get_string_prop(p) ==
    IF p.t = "bad" THEN [err |-> TRUE, some |-> FALSE, v |-> ""]
    ELSE IF p.t = "null" THEN [err |-> FALSE, some |-> FALSE, v |-> ""]
    ELSE [err |-> FALSE, some |-> TRUE, v |-> p.v]

unwrap_or(r, d) == IF r.some THEN r.v ELSE d

(***************************************************************************)
(* vm/state.rs                                                             *)
(***************************************************************************)
VmState ==
    {"Unknown", "Running", "Off", "ShuttingDown", "NotApplicable", "Disabled",
     "Paused", "Suspended", "Starting", "Snapshotting", "Saving", "Stopping",
     "Pausing", "Resuming"}

\* #[repr(u16)] discriminants of VmState.
VmStateCode(s) ==
    CASE s = "Unknown" -> 0
      [] s = "Running" -> 2
      [] s = "Off" -> 3
      [] s = "ShuttingDown" -> 4
      [] s = "NotApplicable" -> 5
      [] s = "Disabled" -> 6
      [] s = "Paused" -> 32768
      [] s = "Suspended" -> 32769
      [] s = "Starting" -> 32770
      [] s = "Snapshotting" -> 32771
      [] s = "Saving" -> 32773
      [] s = "Stopping" -> 32774
      [] s = "Pausing" -> 32776
      [] s = "Resuming" -> 32777

from_enabled_state(value) ==
    CASE value = 2 -> "Running"
      [] value = 3 -> "Off"
      [] value = 4 -> "ShuttingDown"
      [] value = 5 -> "NotApplicable"
      [] value = 6 -> "Disabled"
      [] value = 32768 -> "Paused"
      [] value = 32769 -> "Suspended"
      [] value = 32770 -> "Starting"
      [] value = 32771 -> "Snapshotting"
      [] value = 32773 -> "Saving"
      [] value = 32774 -> "Stopping"
      [] value = 32776 -> "Pausing"
      [] value = 32777 -> "Resuming"
      [] OTHER -> "Unknown"

can_start(s) == s \in {"Off", "Suspended", "Paused"}

can_stop(s) == s \in {"Running", "Paused", "Suspended"}

can_pause(s) == s \in {"Running"}

\* can_save with the operand set of can_stop.
can_save_as_stop(s) == s \in {"Running", "Paused", "Suspended"}

can_save(s) == s \in {"Running", "Paused"}

\* VirtualMachine::resume and ::reset compare the state directly.
can_resume(s) == s = "Paused"

can_reset(s) == s = "Running"

\* A VmStateError without the discriminant in Other: what the conversion
\* would be if the catch-all arm dropped `*self as u16`.
to_error_without_code(s) ==
    IF s \in {"Unknown", "Running", "Off", "ShuttingDown", "Paused",
              "Suspended", "Starting", "Stopping"}
    THEN <<s, 0>>
    ELSE <<"Other", 0>>

\* VmStateError: eight named variants, every other state becomes Other(code).
to_error(s) ==
    IF s \in {"Unknown", "Running", "Off", "ShuttingDown", "Paused",
              "Suspended", "Starting", "Stopping"}
    THEN <<s, 0>>
    ELSE <<"Other", VmStateCode(s)>>

\* RequestedState with Reset sharing the discriminant of Running.
RequestedState_reset_as_running(r) ==
    CASE r = "Running" -> 2
      [] r = "Off" -> 3
      [] r = "Paused" -> 32768
      [] r = "Saved" -> 32769
      [] r = "Reset" -> 2

\* RequestedState discriminants.
RequestedState(r) ==
    CASE r = "Running" -> 2
      [] r = "Off" -> 3
      [] r = "Paused" -> 32768
      [] r = "Saved" -> 32769
      [] r = "Reset" -> 11

ShutdownType == {"Graceful", "Force", "GracefulWithForce"}

(***************************************************************************)
(* error.rs: Error values.                                                 *)
(***************************************************************************)
NoState == <<"", 0>>

NoResult ==
    [kind |-> "none", operation |-> "", code |-> 0, desc |-> "",
     vm_name |-> <<>>, current |-> NoState]

Ok == [NoResult EXCEPT !.kind = "Ok"]

InvalidState(name, cur, operation) ==
    [NoResult EXCEPT !.kind = "InvalidState", !.vm_name = name,
                     !.current = cur, !.operation = operation]

OperationFailed(operation, rv) ==
    [NoResult EXCEPT !.kind = "OperationFailed", !.operation = operation,
                     !.code = rv]

JobFailed(operation, ec, ed) ==
    [NoResult EXCEPT !.kind = "JobFailed", !.operation = operation,
                     !.code = ec, !.desc = ed]

VmNotFound(name) == [NoResult EXCEPT !.kind = "VmNotFound", !.vm_name = name]

\* WmiQuery, WmiMethod, TypeConversion, MissingRequired, SwitchNotFound.
GatewayError(kind, what) ==
    [NoResult EXCEPT !.kind = kind, !.operation = what]

(***************************************************************************)
(* Settings and their validation.  A text the library inspects is a        *)
(* sequence of characters; sizes in bytes are counted in whole MiB.        *)
(***************************************************************************)
None == [some |-> FALSE, v |-> 0]

Some(v) == [some |-> TRUE, v |-> v]

\* The text of n characters c.
Chars(n, c) == [i \in 1..n |-> c]

is_empty(str) == Len(str) = 0

\* char::to_lowercase on the letters the inputs use.
to_lowercase_char(c) ==
    CASE c = "I" -> "i"
      [] c = "S" -> "s"
      [] c = "O" -> "o"
      [] c = "V" -> "v"
      [] c = "H" -> "h"
      [] c = "D" -> "d"
      [] c = "X" -> "x"
      [] OTHER -> c

to_lowercase(str) == [i \in 1..Len(str) |-> to_lowercase_char(str[i])]

ends_with(str, suffix) ==
    /\ Len(suffix) <= Len(str)
    /\ SubSeq(str, Len(str) - Len(suffix) + 1, Len(str)) = suffix

\* The characters VmSettings::validate refuses in a name.
InvalidNameChars == {"\\", "/", ":", "*", "?", "\"", "<", ">", "|"}

is_ascii_hexdigit(c) ==
    c \in {"0", "1", "2", "3", "4", "5", "6", "7", "8", "9",
           "a", "b", "c", "d", "e", "f", "A", "B", "C", "D", "E", "F"}

\* str::replace([':', '-'], "").
replace_separators(mac) ==
    LET kept(c) == c \notin {":", "-"}
    IN  SelectSeq(mac, kept)

\* validate returns the field it refuses, or Valid.
Valid == ""

CheckpointSettings_validate(settings) ==
    IF is_empty(settings.name) THEN "name"
    ELSE IF Len(settings.name) > 100 THEN "name"
    ELSE Valid

\* validate refusing the least memory and the greatest processor count.
VmSettings_validate_exclusive(settings) ==
    LET min == settings.dynamic_memory_min_mb
        max == settings.dynamic_memory_max_mb
        buffer == settings.memory_buffer_percentage
    IN  IF is_empty(settings.name) THEN "name"
        ELSE IF Len(settings.name) > 100 THEN "name"
        ELSE IF \E i \in 1..Len(settings.name) : settings.name[i] \in InvalidNameChars
        THEN "name"
        ELSE IF settings.memory_mb <= 32 THEN "memory_mb"
        ELSE IF settings.memory_mb > 12582912 THEN "memory_mb"
        ELSE IF settings.processor_count < 1 THEN "processor_count"
        ELSE IF settings.processor_count >= 240 THEN "processor_count"
        ELSE IF settings.dynamic_memory /\ min.some /\ min.v < 32
        THEN "dynamic_memory_min_mb"
        ELSE IF settings.dynamic_memory /\ min.some /\ min.v > settings.memory_mb
        THEN "dynamic_memory_min_mb"
        ELSE IF settings.dynamic_memory /\ max.some /\ max.v < settings.memory_mb
        THEN "dynamic_memory_max_mb"
        ELSE IF settings.dynamic_memory /\ min.some /\ max.some /\ min.v > max.v
        THEN "dynamic_memory"
        ELSE IF settings.dynamic_memory /\ buffer.some /\ buffer.v > 100
        THEN "memory_buffer_percentage"
        ELSE IF settings.generation = "Gen1" /\ settings.secure_boot THEN "secure_boot"
        ELSE Valid

VmSettings_validate(settings) ==
    LET min == settings.dynamic_memory_min_mb
        max == settings.dynamic_memory_max_mb
        buffer == settings.memory_buffer_percentage
    IN  IF is_empty(settings.name) THEN "name"
        ELSE IF Len(settings.name) > 100 THEN "name"
        ELSE IF \E i \in 1..Len(settings.name) : settings.name[i] \in InvalidNameChars
        THEN "name"
        ELSE IF settings.memory_mb < 32 THEN "memory_mb"
        ELSE IF settings.memory_mb > 12582912 THEN "memory_mb"
        ELSE IF settings.processor_count < 1 THEN "processor_count"
        ELSE IF settings.processor_count > 240 THEN "processor_count"
        ELSE IF settings.dynamic_memory /\ min.some /\ min.v < 32
        THEN "dynamic_memory_min_mb"
        ELSE IF settings.dynamic_memory /\ min.some /\ min.v > settings.memory_mb
        THEN "dynamic_memory_min_mb"
        ELSE IF settings.dynamic_memory /\ max.some /\ max.v < settings.memory_mb
        THEN "dynamic_memory_max_mb"
        ELSE IF settings.dynamic_memory /\ min.some /\ max.some /\ min.v > max.v
        THEN "dynamic_memory"
        ELSE IF settings.dynamic_memory /\ buffer.some /\ buffer.v > 100
        THEN "memory_buffer_percentage"
        ELSE IF settings.generation = "Gen1" /\ settings.secure_boot THEN "secure_boot"
        ELSE Valid

\* The controller coordinates, as DiskAttachment and IsoAttachment test them.
controller_validate(attachment) ==
    IF attachment.controller_type = "Ide"
    THEN IF attachment.controller_number > 1 THEN "controller_number"
         ELSE IF attachment.controller_location > 1 THEN "controller_location"
         ELSE Valid
    ELSE IF attachment.controller_number > 3 THEN "controller_number"
         ELSE IF attachment.controller_location > 63 THEN "controller_location"
         ELSE Valid

DiskAttachment_validate(attachment) ==
    IF is_empty(attachment.path) THEN "vhd_path"
    ELSE controller_validate(attachment)

IsoAttachment_validate(attachment) ==
    IF is_empty(attachment.path) THEN "iso_path"
    ELSE IF ~ends_with(to_lowercase(attachment.path), <<".", "i", "s", "o">>)
    THEN "iso_path"
    ELSE controller_validate(attachment)

NetworkAdapterSettings_validate(settings) ==
    LET mac == settings.mac_address
        mac_clean == replace_separators(mac.v)
        vlan == settings.vlan_id
    IN  IF mac.some /\ (\/ Len(mac_clean) # 12
                        \/ \E i \in 1..Len(mac_clean) : ~is_ascii_hexdigit(mac_clean[i]))
        THEN "mac_address"
        ELSE IF vlan.some /\ vlan.v > 4094 THEN "vlan_id"
        ELSE Valid

\* validate testing the weight in weight mode only.
VirtualSwitchSettings_validate_weight_mode(settings) ==
    LET weight == settings.default_flow_min_bandwidth_weight
    IN  IF is_empty(settings.name) THEN "name"
        ELSE IF Len(settings.name) > 100 THEN "name"
        ELSE IF \E i \in 1..Len(settings.name) : settings.name[i] \in InvalidNameChars
        THEN "name"
        ELSE IF settings.switch_type = "External" /\ ~settings.external_adapter_id.some
        THEN "external_adapter_id"
        ELSE IF settings.switch_type = "Private" /\ settings.external_adapter_id.some
        THEN "external_adapter_id"
        ELSE IF settings.switch_type = "Private" /\ settings.allow_management_os
        THEN "allow_management_os"
        ELSE IF settings.bandwidth_reservation_mode = "Weight" /\ weight.some
                /\ (weight.v = 0 \/ weight.v > 100)
        THEN "default_flow_min_bandwidth_weight"
        ELSE IF settings.bandwidth_reservation_mode = "Weight" /\ ~weight.some
        THEN "default_flow_min_bandwidth_weight"
        ELSE IF settings.bandwidth_reservation_mode = "Absolute"
                /\ ~settings.default_flow_min_bandwidth_mbps.some
        THEN "default_flow_min_bandwidth_mbps"
        ELSE IF settings.enable_iov /\ settings.switch_type # "External"
        THEN "enable_iov"
        ELSE IF settings.enable_packet_direct /\ settings.switch_type # "External"
        THEN "enable_packet_direct"
        ELSE Valid

VirtualSwitchSettings_validate(settings) ==
    LET weight == settings.default_flow_min_bandwidth_weight
    IN  IF is_empty(settings.name) THEN "name"
        ELSE IF Len(settings.name) > 100 THEN "name"
        ELSE IF \E i \in 1..Len(settings.name) : settings.name[i] \in InvalidNameChars
        THEN "name"
        ELSE IF settings.switch_type = "External" /\ ~settings.external_adapter_id.some
        THEN "external_adapter_id"
        ELSE IF settings.switch_type = "Private" /\ settings.external_adapter_id.some
        THEN "external_adapter_id"
        ELSE IF settings.switch_type = "Private" /\ settings.allow_management_os
        THEN "allow_management_os"
        ELSE IF weight.some /\ (weight.v = 0 \/ weight.v > 100)
        THEN "default_flow_min_bandwidth_weight"
        ELSE IF settings.bandwidth_reservation_mode = "Weight" /\ ~weight.some
        THEN "default_flow_min_bandwidth_weight"
        ELSE IF settings.bandwidth_reservation_mode = "Absolute"
                /\ ~settings.default_flow_min_bandwidth_mbps.some
        THEN "default_flow_min_bandwidth_mbps"
        ELSE IF settings.enable_iov /\ settings.switch_type # "External"
        THEN "enable_iov"
        ELSE IF settings.enable_packet_direct /\ settings.switch_type # "External"
        THEN "enable_packet_direct"
        ELSE Valid

\* 2 TB and 64 TB in MiB.
VhdMaxSize == 2 * 1024 * 1024

VhdxMaxSize == 64 * 1024 * 1024

\* validate refusing a size equal to the cap of the format.
VhdSettings_validate_under_cap(settings) ==
    LET path_lower == to_lowercase(settings.path)
        logical == settings.logical_sector_size
        physical == settings.physical_sector_size
    IN  IF is_empty(settings.path) THEN "path"
        ELSE IF settings.format = "Vhd" /\ ~ends_with(path_lower, <<".", "v", "h", "d">>)
        THEN "path"
        ELSE IF settings.format = "Vhdx"
                /\ ~ends_with(path_lower, <<".", "v", "h", "d", "x">>)
        THEN "path"
        ELSE IF settings.size = 0 /\ settings.disk_type # "Differencing"
        THEN "size_bytes"
        ELSE IF settings.format = "Vhd" /\ settings.size >= VhdMaxSize THEN "size_bytes"
        ELSE IF settings.format = "Vhdx" /\ settings.size >= VhdxMaxSize THEN "size_bytes"
        ELSE IF settings.disk_type = "Differencing" /\ ~settings.parent_path.some
        THEN "parent_path"
        ELSE IF logical.some /\ logical.v # 512 /\ logical.v # 4096
        THEN "logical_sector_size"
        ELSE IF physical.some /\ physical.v # 512 /\ physical.v # 4096
        THEN "physical_sector_size"
        ELSE Valid

VhdSettings_validate(settings) ==
    LET path_lower == to_lowercase(settings.path)
        logical == settings.logical_sector_size
        physical == settings.physical_sector_size
    IN  IF is_empty(settings.path) THEN "path"
        ELSE IF settings.format = "Vhd" /\ ~ends_with(path_lower, <<".", "v", "h", "d">>)
        THEN "path"
        ELSE IF settings.format = "Vhdx"
                /\ ~ends_with(path_lower, <<".", "v", "h", "d", "x">>)
        THEN "path"
        ELSE IF settings.size = 0 /\ settings.disk_type # "Differencing"
        THEN "size_bytes"
        ELSE IF settings.format = "Vhd" /\ settings.size > VhdMaxSize THEN "size_bytes"
        ELSE IF settings.format = "Vhdx" /\ settings.size > VhdxMaxSize THEN "size_bytes"
        ELSE IF settings.disk_type = "Differencing" /\ ~settings.parent_path.some
        THEN "parent_path"
        ELSE IF logical.some /\ logical.v # 512 /\ logical.v # 4096
        THEN "logical_sector_size"
        ELSE IF physical.some /\ physical.v # 512 /\ physical.v # 4096
        THEN "physical_sector_size"
        ELSE Valid

(***************************************************************************)
(* State.                                                                  *)
(*   vm         the caller's VirtualMachine handle: name and cached state  *)
(*   gwEnabled  EnabledState of the VM's document at the gateway           *)
(*   gwJob      the job document of the outstanding asynchronous operation *)
(*   op         the public operation being executed ("idle" between calls) *)
(*   todo       the steps the operation still has to take, first first     *)
(*   result     the value the operation returned (once todo is empty)      *)
(*   hist       what the call did so far (gateway requests, polls, fetches)*)
(*   gwRes      the resource settings of the VM at the gateway, in the     *)
(*              order a query returns them; a resource's path is its index *)
(*   gwPending  the resource the outstanding job adds when it completes    *)
(*   frame      the locals of a provisioning call (paths it found, the     *)
(*              length of the resource list its controller scan read)      *)
(*   last       the find-or-create call made just before the current call  *)
(*   peer       a second caller's find_or_create_controller on the same VM *)
(*   com        the threads that call WmiConnection::connect_to, and each  *)
(*              thread's cell of the thread-local COM_INITIALIZED          *)
(***************************************************************************)
VARIABLES vm, gwEnabled, gwJob, op, todo, result, hist, gwRes, gwPending, frame, last,
          peer, com

vars == <<vm, gwEnabled, gwJob, op, todo, result, hist, gwRes, gwPending, frame, last, peer, com>>

TestVM == <<"T", "e", "s", "t", "V", "M">>

OtherVM == <<"O", "t", "h", "e", "r", "V", "M">>

VmNames == {TestVM, OtherVM}

\* Status codes the gateway answers an invocation with, besides 0 and 4096.
FailureStatus == {1, 32775}

Queued == 4096

JobCompleted == 7

JobFailedStates == {8, 9, 10, 11}

\* EnabledState (uint16) as the gateway may report it: defined codes, an
\* undefined one, no value, or a value of an unreadable type.
EnabledProps ==
    {Null, Bad, Val(9999)}
        \cup {Val(VmStateCode(s)) : s \in {"Running", "Off", "Paused", "Suspended"}}

\* JobState (uint16) as the gateway may report it: running, an unknown
\* code, the terminal codes, no value, an unreadable value.
JobStateProps ==
    {Null, Bad, Val(4), Val(12), Val(JobCompleted)}
        \cup {Val(f) : f \in JobFailedStates}

IsFailedProp(p) == p.t = "val" /\ (p.v % U16) \in JobFailedStates

IsTerminalProp(p) ==
    p.t = "val" /\ (p.v % U16) \in JobFailedStates \cup {JobCompleted}

JobDocs ==
    {[state |-> s, ec |-> Null, ed |-> SNull] :
        s \in {p \in JobStateProps : ~IsFailedProp(p)}}
    \cup {[state |-> s, ec |-> Val(32768), ed |-> SVal("failed")] :
            s \in {p \in JobStateProps : IsFailedProp(p)}}
    \cup {[state |-> Val(10), ec |-> e, ed |-> d] :
            e \in {Null, Bad, Val(32768)},
            d \in {SNull, SBad, SVal("failed")}}

NoJob == [state |-> Null, ec |-> Null, ed |-> SNull]

\* Output parameters of an invocation: ReturnValue and, when queued, Job.
OutParams ==
    {[rv |-> r, job |-> SNull] : r \in {Null, Bad, Val(0)} \cup {Val(c) : c \in FailureStatus}}
    \cup {[rv |-> Val(Queued), job |-> j] : j \in {SNull, SBad, SVal(""), SVal("job1")}}

\* The settings argument of a call that takes none.
NoSettings == [kind |-> "none"]

Idle ==
    [name |-> "idle", shutdown_type |-> "", arg |-> "",
     controller_type |-> "", controller_number |-> 0, controller_location |-> 0,
     adapter |-> 0, switch |-> "",
     settings |-> NoSettings]

\* A resource setting: ResourceSubType, Address, Parent (a path),
\* AddressOnParent, HostResource.
NoRes ==
    [subtype |-> "", address |-> SNull, parent |-> 0, location |-> Null,
     host_resource |-> <<>>]

\* No handle.
NoVm == [name |-> <<>>, state |-> "Unknown", generation |-> "Gen1"]

\* No memory settings document.
NoMemory ==
    [VirtualQuantity |-> 0, Reservation |-> 0, Limit |-> 0,
     DynamicMemoryEnabled |-> FALSE, TargetMemoryBuffer |-> 0]

NoFrame ==
    [controller_path |-> 0, drive_path |-> 0, size0 |-> 0, controllers |-> 0,
     adapter_path |-> 0, switch_path |-> <<>>, caller_vm |-> NoVm,
     entities |-> <<>>, code |-> 0, value |-> "",
     outcomes |-> <<>>, memory |-> NoMemory]

\* A second caller of find_or_create_controller on the same VM: where it
\* is in the call, its arguments, the length of the resource list its scan
\* read, the controller it resolved, whether the gateway added its controller.
NoPeer ==
    [pc |-> "idle", controller_type |-> "", controller_number |-> 0, controllers |-> 0,
     controller_path |-> 0, added |-> FALSE, result |-> NoResult]

MaxThreads == 2

Threads == 1..MaxThreads

\* The connection layer: the cells of the thread-local COM_INITIALIZED, and
\* for each thread where it is in connect_to, how often the transport was
\* initialized on it, the connections it created, the calls of connect_to
\* it made, and the cells it read or wrote.
NoCom ==
    [COM_INITIALIZED |-> [t \in Threads |-> FALSE],
     thread |-> [t \in Threads |->
                    [pc |-> "idle", initialized |-> 0, connections |-> 0, calls |-> 0,
                     cells |-> {}]]]

\* What the caller keeps between calls: the find-or-create call it made
\* last, and in a scripted sequence of calls its position (stage 0: the
\* caller follows no script) and the checkpoint it was returned.
NoLast ==
    [controller_type |-> "", controller_number |-> 0, ok |-> FALSE, size0 |-> 0,
     stage |-> 0, checkpoint |-> ""]

\* A step: its kind, the method or argument it concerns, and for a job
\* monitor the path of the job it polls.
Step(s, m) == [s |-> s, m |-> m, job_path |-> ""]

WaitStep(s, m, job_path) == [s |-> s, m |-> m, job_path |-> job_path]

NoHist ==
    [touched |-> FALSE,       \* a gateway round trip was made
     invokes |-> <<>>,        \* invocations issued: method, arguments, outcome
     failSeen |-> FALSE,      \* an invocation returned a failure status
     failMethod |-> "",       \* the last such invocation
     failCode |-> 0,          \* and its status
     afterFail |-> FALSE,     \* a gateway step was taken after it
     monitor |-> "none",      \* job monitor of the last invocation:
                              \* none | polling | ok | failed | error
     lastRead |-> -1,         \* last JobState the monitor read (-1: none)
     lastDoc |-> NoJob,       \* the job document of that read
     reqDone |-> FALSE,       \* the request (and its job) completed
     added |-> 0,             \* path of the resource the request added (0: none)
     defined |-> {},          \* systems the call's requests defined at the gateway
     destroyed |-> {},        \* systems the call's requests destroyed there
     fetched |-> FALSE,       \* refresh fetched the VM after reqDone
     fetchedProp |-> Null,    \* EnabledState the gateway reported then
     capability |-> "none",   \* shutdown component lookup: none | absent | found
     graceful |-> "none",     \* graceful_shutdown: none | ok | failed
     resulting |-> ""]        \* the path read from the Resulting* parameter

pc == IF op.name = "idle" THEN "idle"
      ELSE IF todo = <<>> THEN "done"
      ELSE Head(todo).s

At(s) == op.name # "idle" /\ todo # <<>> /\ Head(todo).s = s

\* History of a step that talks to the gateway.
Touch(h) == [h EXCEPT !.touched = TRUE, !.afterFail = h.afterFail \/ h.failSeen]

Invoked(h, method, code, ref) ==
    [Touch(h) EXCEPT
        !.invokes = Append(h.invokes, [method |-> method, code |-> code, ref |-> ref,
                                       outcome |-> "sent"]),
        !.monitor = "none", !.lastRead = -1, !.lastDoc = NoJob]

\* The outcome of the last invocation: sent (no answer), error (unreadable
\* answer or job), status (failure status), queued (status 4096, job not
\* read in a terminal state), ok (status 0, or job read Completed), failed
\* (job read in a failed state).
Outcome(h, outcome) == [h EXCEPT !.invokes[Len(h.invokes)].outcome = outcome]

(***************************************************************************)
(* Control: how a step ends.                                               *)
(***************************************************************************)
\* The operation returns res (an early return or `?`).
Return(res, h) ==
    /\ todo' = <<>>
    /\ result' = res
    /\ hist' = h

\* The step is finished; the operation returns Ok after its last step.
Continue(h) ==
    /\ todo' = Tail(todo)
    /\ result' = IF Tail(todo) = <<>> THEN Ok ELSE NoResult
    /\ hist' = h

\* The step is replaced by steps (a call, or a loop iteration to repeat).
Replace(steps, h) ==
    /\ todo' = steps \o Tail(todo)
    /\ result' = NoResult
    /\ hist' = h

\* A public operation is entered: its guard, then its body.
Enter(o, allowed, refused, body) ==
    /\ op.name = "idle"
    /\ op' = o
    /\ hist' = NoHist
    /\ IF allowed
       THEN todo' = body /\ result' = NoResult
       ELSE todo' = <<>> /\ result' = refused
    /\ frame' = [NoFrame EXCEPT !.size0 = Len(gwRes)]
    /\ last' = IF o.name = "find_or_create_controller" THEN last
               ELSE [NoLast EXCEPT !.stage = last.stage, !.checkpoint = last.checkpoint]
    /\ UNCHANGED <<vm, gwEnabled, gwJob, gwRes, gwPending, peer, com>>

(***************************************************************************)
(* vm/computer_system.rs: VirtualMachine                                   *)
(***************************************************************************)
request_state_change(requested) ==
    <<Step("rsc_params", requested), Step("rsc_exec", requested)>>

graceful_shutdown ==
    <<Step("gs_query", ""), Step("gs_params", ""), Step("gs_exec", "")>>

\* A transition that returns without refreshing the handle.
no_refresh == <<>>

refresh_body == <<Step("refresh", "")>>

\* stop with GracefulWithForce going to the forced request at once.
stop_body_force_only(shutdown_type) ==
    CASE shutdown_type = "Force" -> request_state_change("Off") \o refresh_body
      [] shutdown_type = "Graceful" -> graceful_shutdown \o refresh_body
      [] shutdown_type = "GracefulWithForce" ->
            request_state_change("Off") \o refresh_body

stop_body(shutdown_type) ==
    CASE shutdown_type = "Force" -> request_state_change("Off") \o refresh_body
      [] shutdown_type = "Graceful" -> graceful_shutdown \o refresh_body
      [] shutdown_type = "GracefulWithForce" -> graceful_shutdown \o refresh_body

refresh ==
    Enter([Idle EXCEPT !.name = "refresh"], TRUE, NoResult, refresh_body)

start ==
    Enter([Idle EXCEPT !.name = "start"],
          can_start(vm.state),
          InvalidState(vm.name, to_error(vm.state), "start"),
          request_state_change("Running") \o refresh_body)

stop ==
    \E shutdown_type \in ShutdownType :
        Enter([Idle EXCEPT !.name = "stop", !.shutdown_type = shutdown_type],
              can_stop(vm.state),
              InvalidState(vm.name, to_error(vm.state), "stop"),
              stop_body(shutdown_type))

pause ==
    Enter([Idle EXCEPT !.name = "pause"],
          can_pause(vm.state),
          InvalidState(vm.name, to_error(vm.state), "pause"),
          request_state_change("Paused") \o refresh_body)

resume ==
    Enter([Idle EXCEPT !.name = "resume"],
          can_resume(vm.state),
          InvalidState(vm.name, to_error(vm.state), "resume"),
          request_state_change("Running") \o refresh_body)

save ==
    Enter([Idle EXCEPT !.name = "save"],
          can_save(vm.state),
          InvalidState(vm.name, to_error(vm.state), "save"),
          request_state_change("Saved") \o refresh_body)

reset ==
    Enter([Idle EXCEPT !.name = "reset"],
          can_reset(vm.state),
          InvalidState(vm.name, to_error(vm.state), "reset"),
          request_state_change("Reset") \o refresh_body)

\* refresh forgetting the cached state when the fetch fails.
refresh_step_forgetting ==
    /\ At("refresh")
    /\ UNCHANGED <<gwEnabled, gwJob, op, gwRes, gwPending, frame, last, peer, com>>
    /\ \E fetch_ok \in BOOLEAN :
         LET h == [Touch(hist) EXCEPT !.fetched = hist.reqDone,
                                      !.fetchedProp = gwEnabled]
             e == get_u16(gwEnabled)
         IN  IF ~fetch_ok
             THEN Return(GatewayError("WmiQuery", "get_object"), Touch(hist))
                  /\ vm' = [vm EXCEPT !.state = "Unknown"]
             ELSE IF e.err
             THEN Return(GatewayError("TypeConversion", "u16"), h)
                  /\ UNCHANGED vm
             ELSE /\ vm' = [vm EXCEPT !.state = from_enabled_state(unwrap_or(e, 0))]
                  /\ Continue(h)

\* VirtualMachine::refresh: fetch the VM document, cache its EnabledState.
refresh_step ==
    /\ At("refresh")
    /\ UNCHANGED <<gwEnabled, gwJob, op, gwRes, gwPending, frame, last, peer, com>>
    /\ \E fetch_ok \in BOOLEAN :
         LET h == [Touch(hist) EXCEPT !.fetched = hist.reqDone,
                                      !.fetchedProp = gwEnabled]
             e == get_u16(gwEnabled)
         IN  IF ~fetch_ok
             THEN Return(GatewayError("WmiQuery", "get_object"), Touch(hist))
                  /\ UNCHANGED vm
             ELSE IF e.err
             THEN Return(GatewayError("TypeConversion", "u16"), h)
                  /\ UNCHANGED vm
             ELSE /\ vm' = [vm EXCEPT !.state = from_enabled_state(unwrap_or(e, 0))]
                  /\ Continue(h)

\* request_state_change: get_method_params and put_u16("RequestedState").
rsc_params ==
    /\ At("rsc_params")
    /\ UNCHANGED <<vm, gwEnabled, gwJob, op, gwRes, gwPending, frame, last, peer, com>>
    /\ \E outcome \in {"ok", "WmiQuery", "WmiMethod"} :
         IF outcome = "ok"
         THEN Continue(Touch(hist))
         ELSE Return(GatewayError(outcome, "RequestStateChange"), Touch(hist))

\* The match on ReturnValue without its catch-all arm.
rsc_match_without_failure(out, requested) ==
    LET rv == get_u32(out.rv)
        job == get_string_prop(out.job)
        job_path == IF job.err THEN "" ELSE unwrap_or(job, "")
    IN  IF rv.err
        THEN [next |-> "err", job_path |-> "", res |-> GatewayError("TypeConversion", "u32")]
        ELSE IF unwrap_or(rv, 0) = Queued /\ job_path # ""
        THEN [next |-> "wait", job_path |-> job_path, res |-> Ok]
        ELSE [next |-> "ok", job_path |-> "", res |-> Ok]

\* The match on ReturnValue in request_state_change.
\* next: "ok" | "wait" | "err".
rsc_match(out, requested) ==
    LET rv == get_u32(out.rv)
        return_value == unwrap_or(rv, 0)
        job == get_string_prop(out.job)
        \* .ok().flatten().unwrap_or_default()
        job_path == IF job.err THEN "" ELSE unwrap_or(job, "")
    IN  IF rv.err
        THEN [next |-> "err", job_path |-> "", res |-> GatewayError("TypeConversion", "u32")]
        ELSE IF return_value = 0
        THEN [next |-> "ok", job_path |-> "", res |-> Ok]
        ELSE IF return_value = Queued
        THEN IF job_path # ""
             THEN [next |-> "wait", job_path |-> job_path, res |-> Ok]
             ELSE [next |-> "ok", job_path |-> "", res |-> Ok]
        ELSE [next |-> "err", job_path |-> "",
              res |-> OperationFailed("RequestStateChange", return_value)]

\* History of an answered invocation.
Answered(h, method, out) ==
    LET rv == get_u32(out.rv)
        code == unwrap_or(rv, 0)
    IN  IF rv.err THEN Outcome(h, "error")
        ELSE IF code = Queued THEN Outcome(h, "queued")
        ELSE IF code # 0
        THEN [Outcome(h, "status") EXCEPT
                !.failSeen = TRUE, !.failMethod = method, !.failCode = code,
                !.afterFail = FALSE]
        ELSE Outcome(h, "ok")

\* The gateway's job document when it answers with out.
JobFor(out) == IF out.rv = Val(Queued) THEN JobDocs ELSE {NoJob}

\* The gateway has carried out the request it answers with out: at once
\* (status 0), or as a job that is already Completed.
Completes(out, doc) ==
    \/ out.rv = Val(0)
    \/ out.rv = Val(Queued) /\ doc.state = Val(JobCompleted)

\* The system the caller's handle is of, and the system DefineSystem defines.
TestSystem == "vm0"

CreatedSystem == "vm1"

\* The system a DestroySystem request of the call names: the one the call
\* defined, or the one of the handle it was given.
AffectedSystem == IF op.name = "create_vm" THEN CreatedSystem ELSE TestSystem

\* The record of the call once the gateway has carried out its request: a
\* system more after DefineSystem, the named system gone after DestroySystem.
gateway_systems(h, method) ==
    IF method = "DefineSystem"
    THEN [h EXCEPT !.defined = @ \cup {CreatedSystem}]
    ELSE IF method = "DestroySystem"
    THEN [h EXCEPT !.defined = @ \ {AffectedSystem},
                   !.destroyed = @ \cup {AffectedSystem}]
    ELSE h

\* EnabledState of the VM once the gateway has carried out a request: the
\* requested state (Running after a reset); after a restore the state the
\* checkpoint captured (saved or off); unchanged by every other method.
gateway_effect(method, code) ==
    IF method = "RequestStateChange"
    THEN {Val(IF code = 11 THEN 2 ELSE code)}
    ELSE IF method = "ApplySnapshot" THEN {Val(3), Val(32769)}
    ELSE {gwEnabled}

\* request_state_change: exec_method("RequestStateChange") and its result.
rsc_exec ==
    /\ At("rsc_exec")
    /\ UNCHANGED <<vm, op, gwRes, gwPending, frame, last, peer, com>>
    /\ LET requested == Head(todo).m
           h0 == Invoked(hist, "RequestStateChange", RequestedState(requested), "")
       IN  \/ /\ Return(GatewayError("WmiMethod", "RequestStateChange"), h0)
              /\ UNCHANGED <<gwJob, gwEnabled>>
           \/ \E out \in OutParams : \E doc \in JobFor(out) :
                LET m == rsc_match(out, requested)
                    h == Answered(h0, "RequestStateChange", out)
                IN  /\ gwJob' = doc
                    /\ gwEnabled' \in
                          (IF Completes(out, doc)
                           THEN gateway_effect("RequestStateChange",
                                               RequestedState(requested))
                           ELSE {gwEnabled})
                    /\ CASE m.next = "ok" -> Continue([h EXCEPT !.reqDone = TRUE])
                         [] m.next = "wait" ->
                              Replace(<<WaitStep("vm_wait", "RequestStateChange", m.job_path)>>,
                                      [h EXCEPT !.monitor = "polling"])
                         [] m.next = "err" -> Return(m.res, h)

\* The job document a monitor fetches at job_path: an empty path names no
\* job, the gateway answers it with an empty object.
JobAt(job_path) == IF job_path = "" THEN NoJob ELSE gwJob

\* One iteration of VirtualMachine::wait_for_job on the fetched document.
\* next: "return" | "sleep".
vm_wait_iter(job) ==
    LET js == get_u16(job.state)
        job_state == unwrap_or(js, 0)
        ec == get_u32(job.ec)
        ed == get_string_prop(job.ed)
    IN  IF js.err
        THEN [next |-> "return", res |-> GatewayError("TypeConversion", "u16")]
        ELSE IF job_state = 7
        THEN [next |-> "return", res |-> Ok]
        ELSE IF job_state \in {8, 9, 10, 11}
        THEN IF ec.err
             THEN [next |-> "return", res |-> GatewayError("TypeConversion", "u32")]
             ELSE IF ed.err
             THEN [next |-> "return", res |-> GatewayError("TypeConversion", "String")]
             ELSE [next |-> "return",
                   res |-> JobFailed("Job", unwrap_or(ec, 0), unwrap_or(ed, ""))]
        ELSE IF job_state \in {2, 3, 4}
        THEN [next |-> "sleep", res |-> NoResult]
        ELSE [next |-> "sleep", res |-> NoResult]

\* History of one poll that fetched the job document.
Polled(h, job, it) ==
    LET js == get_u16(job.state)
        outcome == IF it.next = "sleep" THEN "queued"
                   ELSE IF it.res = Ok THEN "ok"
                   ELSE IF it.res.kind = "JobFailed" THEN "failed"
                   ELSE "error"
    IN  [Outcome(Touch(h), outcome) EXCEPT
            !.lastRead = IF js.err THEN -1 ELSE unwrap_or(js, 0),
            !.lastDoc = job,
            !.reqDone = @ \/ (it.next = "return" /\ it.res = Ok),
            !.monitor = IF it.next = "sleep" THEN "polling"
                        ELSE IF it.res = Ok THEN "ok"
                        ELSE IF it.res.kind = "JobFailed" THEN "failed"
                        ELSE "error"]

\* A poll of a job monitor: get_object(job_path), then the iteration `it`.
Poll(it, job) ==
    \/ Return(GatewayError("WmiQuery", "get_object"),
              [Outcome(Touch(hist), "error") EXCEPT !.monitor = "error", !.lastRead = -1])
    \/ /\ it.next = "return"
       /\ IF it.res = Ok THEN Continue(Polled(hist, job, it))
                         ELSE Return(it.res, Polled(hist, job, it))
    \/ /\ it.next = "sleep"
       /\ Replace(<<Head(todo)>>, Polled(hist, job, it))

vm_wait_for_job ==
    /\ At("vm_wait")
    /\ UNCHANGED <<vm, gwEnabled, gwJob, op, gwRes, gwPending, frame, last, peer, com>>
    /\ Poll(vm_wait_iter(JobAt(Head(todo).job_path)), JobAt(Head(todo).job_path))

\* stop falling back to the forced request for Graceful as well.
graceful_shutdown_always_forced(res, h) ==
    IF res = Ok
    THEN Continue([h EXCEPT !.graceful = "ok", !.reqDone = TRUE])
    ELSE /\ todo' = request_state_change("Off") \o refresh_body
         /\ result' = NoResult
         /\ hist' = [h EXCEPT !.graceful = "failed"]

\* stop trying the in-guest shutdown a second time after it failed.
graceful_shutdown_retried(res, h) ==
    IF res = Ok
    THEN Continue([h EXCEPT !.graceful = "ok", !.reqDone = TRUE])
    ELSE IF Len(h.invokes) = 1
    THEN /\ todo' = <<Step("gs_exec", "")>> \o refresh_body
         /\ result' = NoResult
         /\ hist' = h
    ELSE Return(res, [h EXCEPT !.graceful = "failed"])

\* graceful_shutdown returned res: stop's match on the shutdown type.
\* Graceful propagates the error with `?`; GracefulWithForce tests is_err()
\* and requests Off instead.
graceful_shutdown_returned(res, h) ==
    IF res = Ok
    THEN Continue([h EXCEPT !.graceful = "ok", !.reqDone = TRUE])
    ELSE IF op.shutdown_type = "GracefulWithForce"
    THEN /\ todo' = request_state_change("Off") \o refresh_body
         /\ result' = NoResult
         /\ hist' = [h EXCEPT !.graceful = "failed"]
    ELSE Return(res, [h EXCEPT !.graceful = "failed"])

\* graceful_shutdown: query_first(Msvm_ShutdownComponent) and get_path.
gs_query ==
    /\ At("gs_query")
    /\ UNCHANGED <<vm, gwEnabled, gwJob, op, gwRes, gwPending, frame, last, peer, com>>
    /\ \E answer \in {"WmiQuery", "none", "MissingRequired", "found"} :
         CASE answer = "WmiQuery" ->
                graceful_shutdown_returned(
                    GatewayError("WmiQuery", "Msvm_ShutdownComponent"), Touch(hist))
           [] answer = "none" ->
                graceful_shutdown_returned(
                    OperationFailed("GracefulShutdown", 0),
                    [Touch(hist) EXCEPT !.capability = "absent"])
           [] answer = "MissingRequired" ->
                graceful_shutdown_returned(
                    GatewayError("MissingRequired", "__PATH"),
                    [Touch(hist) EXCEPT !.capability = "found"])
           [] answer = "found" ->
                Continue([Touch(hist) EXCEPT !.capability = "found"])

\* graceful_shutdown: get_method_params, put_bool("Force"), put_string("Reason").
gs_params ==
    /\ At("gs_params")
    /\ UNCHANGED <<vm, gwEnabled, gwJob, op, gwRes, gwPending, frame, last, peer, com>>
    /\ \E outcome \in {"ok", "WmiQuery", "WmiMethod"} :
         IF outcome = "ok"
         THEN Continue(Touch(hist))
         ELSE graceful_shutdown_returned(
                  GatewayError(outcome, "InitiateShutdown"), Touch(hist))

\* The test of ReturnValue in graceful_shutdown.
gs_match(out) ==
    LET rv == get_u32(out.rv)
        return_value == unwrap_or(rv, 0)
    IN  IF rv.err THEN GatewayError("TypeConversion", "u32")
        ELSE IF return_value = 0 THEN Ok
        ELSE OperationFailed("InitiateShutdown", return_value)

\* graceful_shutdown: exec_method("InitiateShutdown") and its result.
gs_exec ==
    /\ At("gs_exec")
    /\ UNCHANGED <<vm, gwEnabled, op, gwRes, gwPending, frame, last, peer, com>>
    /\ LET h0 == Invoked(hist, "InitiateShutdown", 0, "")
       IN  \/ /\ graceful_shutdown_returned(
                     GatewayError("WmiMethod", "InitiateShutdown"), h0)
              /\ UNCHANGED gwJob
           \/ \E out \in OutParams : \E doc \in JobFor(out) :
                /\ gwJob' = doc
                /\ graceful_shutdown_returned(
                       gs_match(out), Answered(h0, "InitiateShutdown", out))

(***************************************************************************)
(* hyperv.rs: HyperV                                                       *)
(***************************************************************************)
\* get_management_service / get_image_service: query_first, then get_path.
service_lookup(class) ==
    /\ UNCHANGED <<vm, gwEnabled, gwJob, op, gwRes, gwPending, frame, last, peer, com>>
    /\ \E answer \in {"WmiQuery", "none", "MissingRequired", "found"} :
         CASE answer = "WmiQuery" -> Return(GatewayError("WmiQuery", class), Touch(hist))
           [] answer = "none" -> Return(GatewayError("WmiQuery", class), Touch(hist))
           [] answer = "MissingRequired" ->
                Return(GatewayError("MissingRequired", "__PATH"), Touch(hist))
           [] answer = "found" -> Continue(Touch(hist))

get_management_service ==
    /\ At("mgmt_service")
    /\ service_lookup("Msvm_VirtualSystemManagementService")

\* get_method_params(class, method) and the put_* calls on the parameters.
get_method_params ==
    /\ At("params")
    /\ UNCHANGED <<vm, gwEnabled, gwJob, op, gwRes, gwPending, frame, last, peer, com>>
    /\ \E outcome \in {"ok", "WmiQuery", "WmiMethod"} :
         IF outcome = "ok"
         THEN Continue(Touch(hist))
         ELSE Return(GatewayError(outcome, Head(todo).m), Touch(hist))

\* handle_job_result without its catch-all arm: every status but 4096 is Ok.
hv_handle_job_result_without_failure(out, operation) ==
    LET rv == get_u32(out.rv)
        job == get_string_prop(out.job)
    IN  IF rv.err
        THEN [next |-> "err", job_path |-> "", res |-> GatewayError("TypeConversion", "u32")]
        ELSE IF unwrap_or(rv, 0) = Queued /\ ~job.err /\ job.some
        THEN [next |-> "wait", job_path |-> job.v, res |-> Ok]
        ELSE [next |-> "ok", job_path |-> "", res |-> Ok]

\* HyperV::handle_job_result.  next: "ok" | "wait" | "err".
hv_handle_job_result(out, operation) ==
    LET rv == get_u32(out.rv)
        return_value == unwrap_or(rv, 0)
        job == get_string_prop(out.job)
    IN  IF rv.err
        THEN [next |-> "err", job_path |-> "", res |-> GatewayError("TypeConversion", "u32")]
        ELSE IF return_value = 0
        THEN [next |-> "ok", job_path |-> "", res |-> Ok]
        ELSE IF return_value = Queued
        THEN IF job.err
             THEN [next |-> "err", job_path |-> "",
                   res |-> GatewayError("TypeConversion", "String")]
             ELSE IF job.some
             THEN [next |-> "wait", job_path |-> job.v, res |-> Ok]
             ELSE [next |-> "ok", job_path |-> "", res |-> Ok]
        ELSE [next |-> "err", job_path |-> "",
              res |-> OperationFailed(operation, return_value)]

\* What follows handle_job_result's answer `m` to the output parameters
\* `out` of exec_method(method): a queued operation continues in the job
\* monitor `wait`.
exec_and_handle(method, wait, out, doc, m) ==
    LET answered == Answered(Invoked(hist, method, 0, op.arg), method, out)
        h == IF Completes(out, doc) THEN gateway_systems(answered, method)
             ELSE answered
    IN  /\ gwJob' = doc
        /\ gwEnabled' \in (IF Completes(out, doc) THEN gateway_effect(method, 0)
                                                  ELSE {gwEnabled})
        /\ CASE m.next = "ok" -> Continue([h EXCEPT !.reqDone = TRUE])
             [] m.next = "wait" ->
                  Replace(<<WaitStep(wait, method, m.job_path)>>,
                          [h EXCEPT !.monitor = "polling"])
             [] m.next = "err" -> Return(m.res, h)

\* exec_method failed: the gateway error is returned.
exec_failed(method) ==
    /\ Return(GatewayError("WmiMethod", method), Invoked(hist, method, 0, op.arg))
    /\ UNCHANGED <<gwJob, gwEnabled>>

hv_exec ==
    /\ At("hv_exec")
    /\ UNCHANGED <<vm, op, gwRes, gwPending, frame, last, peer, com>>
    /\ \/ exec_failed(Head(todo).m)
       \/ \E out \in OutParams : \E doc \in JobFor(out) :
            exec_and_handle(Head(todo).m, "hv_wait", out, doc,
                            hv_handle_job_result(out, Head(todo).m))

\* A monitor that takes every state other than Completed for a failure.
hv_wait_iter_strict(job, operation) ==
    LET js == get_u16(job.state)
        ec == get_u32(job.ec)
        ed == get_string_prop(job.ed)
    IN  IF js.err
        THEN [next |-> "return", res |-> GatewayError("TypeConversion", "u16")]
        ELSE IF unwrap_or(js, 0) = 7
        THEN [next |-> "return", res |-> Ok]
        ELSE IF ec.err
        THEN [next |-> "return", res |-> GatewayError("TypeConversion", "u32")]
        ELSE IF ed.err
        THEN [next |-> "return", res |-> GatewayError("TypeConversion", "String")]
        ELSE [next |-> "return",
              res |-> JobFailed(operation, unwrap_or(ec, 0), unwrap_or(ed, ""))]

\* One iteration of HyperV::wait_for_job on the fetched document.
hv_wait_iter(job, operation) ==
    LET js == get_u16(job.state)
        job_state == unwrap_or(js, 0)
        ec == get_u32(job.ec)
        ed == get_string_prop(job.ed)
    IN  IF js.err
        THEN [next |-> "return", res |-> GatewayError("TypeConversion", "u16")]
        ELSE IF job_state = 7
        THEN [next |-> "return", res |-> Ok]
        ELSE IF job_state \in {8, 9, 10, 11}
        THEN IF ec.err
             THEN [next |-> "return", res |-> GatewayError("TypeConversion", "u32")]
             ELSE IF ed.err
             THEN [next |-> "return", res |-> GatewayError("TypeConversion", "String")]
             ELSE [next |-> "return",
                   res |-> JobFailed(operation, unwrap_or(ec, 0), unwrap_or(ed, ""))]
        ELSE [next |-> "sleep", res |-> NoResult]

hv_wait_for_job ==
    /\ At("hv_wait")
    /\ UNCHANGED <<vm, gwEnabled, gwJob, op, gwRes, gwPending, frame, last, peer, com>>
    /\ Poll(hv_wait_iter(JobAt(Head(todo).job_path), Head(todo).m),
            JobAt(Head(todo).job_path))

CheckpointPaths == {"snap1", "snap2"}

\* The precondition of apply_checkpoint with the operand set of can_start.
can_apply_as_start(s) == s \in {"Off", "Suspended", "Paused"}

\* apply_checkpoint: `vm.state() != VmState::Off` is refused.
can_apply(s) == s = "Off"

apply_checkpoint ==
    \E checkpoint \in CheckpointPaths :
        Enter([Idle EXCEPT !.name = "apply_checkpoint", !.arg = checkpoint],
              can_apply(vm.state),
              InvalidState(vm.name, to_error(vm.state), "apply checkpoint"),
              <<Step("mgmt_service", ""), Step("params", "ApplySnapshot"),
                Step("hv_exec", "ApplySnapshot")>> \o refresh_body)

\* delete_checkpoint with the precondition of apply_checkpoint.
delete_checkpoint_gated ==
    \E checkpoint \in CheckpointPaths :
        Enter([Idle EXCEPT !.name = "delete_checkpoint", !.arg = checkpoint],
              can_apply(vm.state),
              InvalidState(vm.name, to_error(vm.state), "delete checkpoint"),
              <<Step("mgmt_service", ""), Step("params", "DestroySnapshot"),
                Step("hv_exec", "DestroySnapshot")>>)

delete_checkpoint ==
    \E checkpoint \in CheckpointPaths :
        Enter([Idle EXCEPT !.name = "delete_checkpoint", !.arg = checkpoint],
              TRUE, NoResult,
              <<Step("mgmt_service", ""), Step("params", "DestroySnapshot"),
                Step("hv_exec", "DestroySnapshot")>>)

\* The path the gateway may return in the Resulting* output parameter of
\* a creating method.
ResultingPaths(method) ==
    IF method = "CreateSnapshot" THEN CheckpointPaths ELSE {CreatedSystem}

\* out_params.get_string_prop("Resulting...")?.ok_or_else(OperationFailed):
\* read from the output parameters the invocation returned.
resulting_path ==
    /\ At("resulting")
    /\ UNCHANGED <<vm, gwEnabled, gwJob, op, gwRes, gwPending, frame, last, peer, com>>
    /\ \E p \in {SNull, SBad} \cup {SVal(q) : q \in ResultingPaths(Head(todo).m)} :
         LET r == get_string_prop(p)
         IN  IF r.err THEN Return(GatewayError("TypeConversion", "String"), hist)
             ELSE IF ~r.some THEN Return(OperationFailed(Head(todo).m, 0), hist)
             ELSE Continue([hist EXCEPT !.resulting = r.v])

\* str::contains.
contains(str, pattern) ==
    \E i \in 1..(Len(str) - Len(pattern) + 1) :
        SubSeq(str, i, i + Len(pattern) - 1) = pattern

SubTypePrefix ==
    <<"M", "i", "c", "r", "o", "s", "o", "f", "t", ":", "H", "y", "p", "e", "r", "-", "V",
      ":", "S", "u", "b", "T", "y", "p", "e", ":">>

\* Generation::to_subtype and Generation::from_subtype.
to_subtype(generation) ==
    SubTypePrefix \o (IF generation = "Gen1" THEN <<"1">> ELSE <<"2">>)

from_subtype(subtype) == IF contains(subtype, <<":", "2">>) THEN "Gen2" ELSE "Gen1"

\* A text property as get_string_prop returns it.
Text(v) == [err |-> FALSE, some |-> TRUE, v |-> v]

NoText == [err |-> FALSE, some |-> FALSE, v |-> <<>>]

BadText == [err |-> TRUE, some |-> FALSE, v |-> <<>>]

\* query_first found no settings document.
NoDocument == [some |-> FALSE, v |-> [subtype |-> NoText]]

\* query_generation without the query.
query_generation_gen1(settings) == "Gen1"

\* VirtualMachine::query_generation after its query: settings is what
\* query_first returned, subtype what get_string_prop read from it; a
\* missing document and a missing, unreadable or empty subtype give Gen1.
query_generation(settings) ==
    IF settings.some
    THEN LET r == settings.v.subtype
             subtype == IF ~r.err /\ r.some THEN r.v ELSE <<>>
         IN  IF ~is_empty(subtype) THEN from_subtype(subtype) ELSE "Gen1"
    ELSE "Gen1"

\* The system the gateway defines for the DefineSystem request of the call
\* in progress: named and typed as its SystemSettings text says.
DefinedSystem ==
    [ElementName |-> op.settings.name,
     settings |-> Some([subtype |-> Text(to_subtype(op.settings.generation))])]

\* get_object(result) and from_wmi on the object fetched.  For a VM,
\* from_wmi reads ElementName, Name, EnabledState and the path and queries
\* the generation; until create_vm returns, vm is the handle it builds and
\* the handle the caller had is kept aside.
get_created ==
    /\ At("get_created")
    /\ UNCHANGED <<gwEnabled, gwJob, op, gwRes, gwPending, last, peer, com>>
    /\ \E outcome \in {"ok", "WmiQuery", "MissingRequired", "TypeConversion"} :
         LET e == get_u16(gwEnabled)
         IN  IF outcome = "ok" /\ Head(todo).m = "vm"
             THEN /\ ~e.err
                  /\ Continue(Touch(hist))
                  /\ vm' = [name |-> DefinedSystem.ElementName,
                            state |-> from_enabled_state(unwrap_or(e, 0)),
                            generation |-> query_generation(DefinedSystem.settings)]
                  /\ frame' = [frame EXCEPT !.caller_vm = vm]
             ELSE /\ IF outcome = "ok"
                     THEN Continue(Touch(hist))
                     ELSE Return(GatewayError(outcome, Head(todo).m), Touch(hist))
                  /\ UNCHANGED <<vm, frame>>

Snap1 == <<"S", "n", "a", "p", "1">>

\* Checkpoint settings: no name, a name, names of 100 and of 101 characters.
CheckpointSettings ==
    {[name |-> n] : n \in {<<>>, Snap1, Chars(100, "a"), Chars(101, "a")}}

\* create_checkpoint without the call of validate.
create_checkpoint_unvalidated ==
    \E settings \in CheckpointSettings :
        Enter([Idle EXCEPT !.name = "create_checkpoint", !.settings = settings],
              TRUE, NoResult,
              <<Step("mgmt_service", ""), Step("spawn", "snapshot_settings"),
                Step("params", "CreateSnapshot"), Step("hv_exec", "CreateSnapshot"),
                Step("resulting", "CreateSnapshot"), Step("get_created", "checkpoint")>>)

create_checkpoint ==
    \E settings \in CheckpointSettings :
        Enter([Idle EXCEPT !.name = "create_checkpoint", !.settings = settings],
              CheckpointSettings_validate(settings) = Valid,
              GatewayError("Validation", CheckpointSettings_validate(settings)),
              <<Step("mgmt_service", ""), Step("spawn", "snapshot_settings"),
                Step("params", "CreateSnapshot"), Step("hv_exec", "CreateSnapshot"),
                Step("resulting", "CreateSnapshot"), Step("get_created", "checkpoint")>>)

(***************************************************************************)
(* hyperv.rs: resource provisioning.                                       *)
(***************************************************************************)
\* Capacity of the VM's resource list at the gateway.
MaxResources == 3

ControllerType == {"Ide", "Scsi"}

resource_subtype(controller_type) ==
    IF controller_type = "Ide" THEN "Emulated IDE Controller"
    ELSE "Synthetic SCSI Controller"

\* str::contains on the subtypes and patterns the library uses.
Contains(subtype, pattern) ==
    \/ subtype = pattern
    \/ subtype = "Synthetic Disk Drive" /\ pattern = "Disk Drive"
    \/ subtype = "Synthetic DVD Drive" /\ pattern = "DVD Drive"

\* str::parse::<u32>: Some(n) for a decimal numeral.
parse_u32(str) ==
    CASE str = "0" -> [some |-> TRUE, v |-> 0]
      [] str = "1" -> [some |-> TRUE, v |-> 1]
      [] str = "2" -> [some |-> TRUE, v |-> 2]
      [] str = "3" -> [some |-> TRUE, v |-> 3]
      [] str = "4" -> [some |-> TRUE, v |-> 4]
      [] OTHER -> [some |-> FALSE, v |-> 0]

\* The numeral the gateway writes for n.
Numeral(n) ==
    CASE n = 0 -> "0"
      [] n = 1 -> "1"
      [] n = 2 -> "2"
      [] n = 3 -> "3"
      [] OTHER -> "4"

\* The first of the paths in S in query order (0: none).
First(S) == IF S = {} THEN 0 ELSE CHOOSE i \in S : \A j \in S : i <= j

\* The first loop of find_or_create_controller: subtype and address match.
find_controller(resources, controller_type, controller_number) ==
    First({i \in DOMAIN resources :
             LET addr == get_string_prop(resources[i].address)
             IN  /\ Contains(resources[i].subtype, resource_subtype(controller_type))
                 /\ addr.some
                 /\ unwrap_or(parse_u32(addr.v), 0) = controller_number})

\* The loop after the re-query: the first controller of the subtype.
requery_controller(resources, controller_type) ==
    First({i \in DOMAIN resources :
             Contains(resources[i].subtype, resource_subtype(controller_type))})

\* The loop of find_disk_drive / find_dvd_drive.
find_drive_in(resources, pattern, controller_path, location) ==
    First({i \in DOMAIN resources :
             LET addr == get_u32(resources[i].location)
             IN  /\ Contains(resources[i].subtype, pattern)
                 /\ resources[i].parent = controller_path
                 /\ addr.some
                 /\ addr.v = location})

\* get_vm_settings: query_first over the VM's settings, then get_path.
get_vm_settings ==
    /\ At("vm_settings")
    /\ UNCHANGED <<vm, gwEnabled, gwJob, op, gwRes, gwPending, frame, last, peer, com>>
    /\ \E answer \in {"WmiQuery", "none", "MissingRequired", "found"} :
         CASE answer = "WmiQuery" ->
                Return(GatewayError("WmiQuery", "Msvm_VirtualSystemSettingData"),
                       Touch(hist))
           [] answer = "none" -> Return(VmNotFound(vm.name), Touch(hist))
           [] answer = "MissingRequired" ->
                Return(GatewayError("MissingRequired", "__PATH"), Touch(hist))
           [] answer = "found" -> Continue(Touch(hist))

\* add_scsi_controller, then the re-query of find_or_create_controller.
add_scsi_controller ==
    <<Step("vm_settings", ""), Step("spawn", "controller"), Step("mgmt_service", ""),
      Step("params", "AddResourceSettings"), Step("add_exec", "controller")>>

\* find_or_create_controller: the query and the first loop.
foc_scan ==
    /\ At("foc_scan")
    /\ UNCHANGED <<vm, gwEnabled, gwJob, op, gwRes, gwPending, last, peer, com>>
    /\ \/ /\ Return(GatewayError("WmiQuery", "Msvm_ResourceAllocationSettingData"),
                    Touch(hist))
          /\ UNCHANGED frame
       \/ LET found == find_controller(gwRes, op.controller_type, op.controller_number)
          IN  IF found # 0
              THEN /\ frame' = [frame EXCEPT !.controller_path = found,
                                             !.controllers = Len(gwRes)]
                   /\ Continue(Touch(hist))
              ELSE /\ frame' = [frame EXCEPT !.controllers = Len(gwRes)]
                   /\ IF op.controller_type = "Scsi"
                      THEN Replace(add_scsi_controller \o <<Step("foc_requery", "")>>,
                                   Touch(hist))
                      ELSE Return(OperationFailed("FindController", 0), Touch(hist))

\* find_or_create_controller: the re-query and the second loop.
foc_requery ==
    /\ At("foc_requery")
    /\ UNCHANGED <<vm, gwEnabled, gwJob, op, gwRes, gwPending, last, peer, com>>
    /\ \/ /\ Return(GatewayError("WmiQuery", "Msvm_ResourceAllocationSettingData"),
                    Touch(hist))
          /\ UNCHANGED frame
       \/ LET found == requery_controller(gwRes, op.controller_type)
          IN  IF found # 0
              THEN /\ frame' = [frame EXCEPT !.controller_path = found]
                   /\ Continue(Touch(hist))
              ELSE /\ UNCHANGED frame
                   /\ Return(OperationFailed("FindController", 0), Touch(hist))

\* get_path of the object found before, spawn_instance and the put_* calls
\* on the new instance, get_text.
spawn_instance ==
    /\ At("spawn")
    /\ UNCHANGED <<vm, gwEnabled, gwJob, op, gwRes, gwPending, frame, last, peer, com>>
    /\ \E outcome \in {"ok", "MissingRequired", "WmiQuery"} :
         CASE outcome = "ok" -> Continue(Touch(hist))
           [] outcome = "MissingRequired" ->
                Return(GatewayError("MissingRequired", "__PATH"), hist)
           [] outcome = "WmiQuery" ->
                Return(GatewayError("WmiQuery", Head(todo).m), Touch(hist))

DrivePattern == IF op.name = "mount_iso" THEN "DVD Drive" ELSE "Disk Drive"

\* The resource settings the gateway may create for a request of this kind.
\* The controller text carries no address: the gateway numbers the new
\* controller itself, or leaves Address unset.
NewResources(kind) ==
    CASE kind = "controller" ->
            LET n == Cardinality({i \in DOMAIN gwRes :
                                    gwRes[i].subtype = "Synthetic SCSI Controller"})
            IN  {[NoRes EXCEPT !.subtype = "Synthetic SCSI Controller", !.address = a] :
                    a \in {SNull, SVal(Numeral(n))}}
      [] kind = "drive" ->
            {[NoRes EXCEPT !.subtype = IF op.name = "mount_iso"
                                       THEN "Synthetic DVD Drive"
                                       ELSE "Synthetic Disk Drive",
                           !.parent = frame.controller_path,
                           !.location = Val(op.controller_location)]}
      [] kind = "storage" ->
            {[NoRes EXCEPT !.subtype = "Virtual Hard Disk",
                           !.parent = frame.drive_path,
                           !.host_resource = op.settings.path]}
      [] kind = "adapter" ->
            {[NoRes EXCEPT !.subtype = "Synthetic Ethernet Port"]}
      [] kind = "port" ->
            {[NoRes EXCEPT !.subtype = "Ethernet Connection",
                           !.parent = op.adapter,
                           !.host_resource = frame.switch_path]}

\* attach with a rollback: when the storage request is answered with a
\* failure status the drive found for it is removed again.
add_exec_with_rollback ==
    /\ At("add_exec")
    /\ UNCHANGED <<vm, gwEnabled, op, frame, last, peer, com>>
    /\ LET kind == Head(todo).m
           h0 == Invoked(hist, "AddResourceSettings", 0, kind)
       IN  \/ /\ Return(GatewayError("WmiMethod", "AddResourceSettings"), h0)
              /\ UNCHANGED <<gwJob, gwRes, gwPending>>
           \/ \E out \in OutParams : \E doc \in JobFor(out) :
                LET accepted == out.rv \in {Val(0), Val(Queued)}
                    added == \/ out.rv = Val(0)
                             \/ out.rv = Val(Queued) /\ doc.state = Val(JobCompleted)
                    m == hv_handle_job_result(out, "AddResourceSettings")
                    h == [Answered(h0, "AddResourceSettings", out) EXCEPT
                            !.added = IF added THEN Len(gwRes) + 1 ELSE 0]
                IN  /\ accepted => Len(gwRes) < MaxResources
                    /\ gwJob' = doc
                    /\ \E r \in (IF accepted THEN NewResources(kind) ELSE {NoRes}) :
                         /\ gwRes' = IF added THEN Append(gwRes, r)
                                     ELSE IF kind = "storage" /\ ~accepted
                                     THEN SubSeq(gwRes, 1, frame.drive_path - 1)
                                          \o SubSeq(gwRes, frame.drive_path + 1, Len(gwRes))
                                     ELSE gwRes
                         /\ gwPending' = IF accepted /\ ~added /\ ~IsTerminalProp(doc.state)
                                         THEN r ELSE NoRes
                    /\ CASE m.next = "ok" -> Continue([h EXCEPT !.reqDone = TRUE])
                         [] m.next = "wait" ->
                              Replace(<<WaitStep("hv_wait", "AddResourceSettings",
                                                 m.job_path)>>,
                                      [h EXCEPT !.monitor = "polling"])
                         [] m.next = "err" -> Return(m.res, h)

\* exec_method(AddResourceSettings) and handle_job_result.  The gateway
\* accepts the request (status 0 or 4096) only while the VM has room.
add_exec ==
    /\ At("add_exec")
    /\ UNCHANGED <<vm, gwEnabled, op, frame, last, peer, com>>
    /\ LET kind == Head(todo).m
           h0 == Invoked(hist, "AddResourceSettings", 0, kind)
       IN  \/ /\ Return(GatewayError("WmiMethod", "AddResourceSettings"), h0)
              /\ UNCHANGED <<gwJob, gwRes, gwPending>>
           \/ \E out \in OutParams : \E doc \in JobFor(out) :
                LET accepted == out.rv \in {Val(0), Val(Queued)}
                    added == \/ out.rv = Val(0)
                             \/ out.rv = Val(Queued) /\ doc.state = Val(JobCompleted)
                    m == hv_handle_job_result(out, "AddResourceSettings")
                    h == [Answered(h0, "AddResourceSettings", out) EXCEPT
                            !.added = IF added THEN Len(gwRes) + 1 ELSE 0]
                IN  /\ accepted => Len(gwRes) < MaxResources
                    /\ gwJob' = doc
                    /\ \E r \in (IF accepted THEN NewResources(kind) ELSE {NoRes}) :
                         /\ gwRes' = IF added THEN Append(gwRes, r) ELSE gwRes
                         /\ gwPending' = IF accepted /\ ~added /\ ~IsTerminalProp(doc.state)
                                         THEN r ELSE NoRes
                    /\ CASE m.next = "ok" -> Continue([h EXCEPT !.reqDone = TRUE])
                         [] m.next = "wait" ->
                              Replace(<<WaitStep("hv_wait", "AddResourceSettings",
                                                 m.job_path)>>,
                                      [h EXCEPT !.monitor = "polling"])
                         [] m.next = "err" -> Return(m.res, h)

\* find_disk_drive / find_dvd_drive: the query and the loop.
find_drive ==
    /\ At("find_drive")
    /\ UNCHANGED <<vm, gwEnabled, gwJob, op, gwRes, gwPending, last, peer, com>>
    /\ \/ /\ Return(GatewayError("WmiQuery", "Msvm_ResourceAllocationSettingData"),
                    Touch(hist))
          /\ UNCHANGED frame
       \/ LET found == find_drive_in(gwRes, DrivePattern, frame.controller_path,
                                     op.controller_location)
          IN  IF found # 0
              THEN /\ frame' = [frame EXCEPT !.drive_path = found]
                   /\ Continue(Touch(hist))
              ELSE /\ UNCHANGED frame
                   /\ Return(OperationFailed(IF op.name = "mount_iso"
                                             THEN "FindDvdDrive" ELSE "FindDiskDrive", 0),
                             Touch(hist))

find_or_create_controller_body == <<Step("vm_settings", ""), Step("foc_scan", "")>>

\* attach_vhd and mount_iso after validate.
attach_body ==
    <<Step("vm_settings", "")>> \o find_or_create_controller_body \o
    <<Step("spawn", "drive"), Step("mgmt_service", ""),
      Step("params", "AddResourceSettings"), Step("add_exec", "drive"),
      Step("vm_settings", ""), Step("find_drive", ""),
      Step("spawn", "storage"), Step("params", "AddResourceSettings"),
      Step("add_exec", "storage")>>

ControllerNumbers == {0, 1}

ControllerLocations == {0}

find_or_create_controller ==
    \E controller_type \in ControllerType, controller_number \in ControllerNumbers :
        Enter([Idle EXCEPT !.name = "find_or_create_controller",
                           !.controller_type = controller_type,
                           !.controller_number = controller_number],
              TRUE, NoResult, find_or_create_controller_body)

DiskPath == <<"d", ".", "v", "h", "d", "x">>

IsoPath == <<"o", "s", ".", "I", "S", "O">>

\* Attachments of the media at path: the accepted coordinates the model
\* follows, and one refused attachment for each test of validate.
Attachments(path) ==
    {[path |-> path, controller_type |-> t, controller_number |-> n,
      controller_location |-> l] :
        t \in ControllerType, n \in ControllerNumbers, l \in ControllerLocations}
    \cup {[path |-> <<>>, controller_type |-> "Scsi", controller_number |-> 0,
           controller_location |-> 0],
          [path |-> path, controller_type |-> "Ide", controller_number |-> 2,
           controller_location |-> 0],
          [path |-> path, controller_type |-> "Ide", controller_number |-> 0,
           controller_location |-> 2],
          [path |-> path, controller_type |-> "Scsi", controller_number |-> 4,
           controller_location |-> 0],
          [path |-> path, controller_type |-> "Scsi", controller_number |-> 0,
           controller_location |-> 64]}

\* The call record of an attach.
Attach(name, attachment) ==
    [Idle EXCEPT !.name = name,
                 !.controller_type = attachment.controller_type,
                 !.controller_number = attachment.controller_number,
                 !.controller_location = attachment.controller_location,
                 !.settings = attachment]

attach_vhd ==
    \E attachment \in Attachments(DiskPath) :
        Enter(Attach("attach_vhd", attachment),
              DiskAttachment_validate(attachment) = Valid,
              GatewayError("Validation", DiskAttachment_validate(attachment)),
              attach_body)

mount_iso ==
    \E attachment \in Attachments(IsoPath) \cup Attachments(DiskPath) :
        Enter(Attach("mount_iso", attachment),
              IsoAttachment_validate(attachment) = Valid,
              GatewayError("Validation", IsoAttachment_validate(attachment)),
              attach_body)

\* The memory settings the gateway gives a system it has defined.
MemorySettingData ==
    [VirtualQuantity |-> 1024, Reservation |-> 512, Limit |-> 1048576,
     DynamicMemoryEnabled |-> FALSE, TargetMemoryBuffer |-> 20]

\* put_u64, put_bool, put_u32 on a document.
put(doc, name, value) == [doc EXCEPT ![name] = value]

\* configure_memory giving the minimum as Limit and the maximum as
\* Reservation.
configure_memory_exchanged(mem_settings, settings) ==
    LET startup == put(put(put(mem_settings, "VirtualQuantity", settings.memory_mb),
                           "Reservation", settings.memory_mb),
                       "Limit", settings.memory_mb)
        enabled == put(startup, "DynamicMemoryEnabled", TRUE)
        min == IF settings.dynamic_memory_min_mb.some
               THEN put(enabled, "Limit", settings.dynamic_memory_min_mb.v)
               ELSE enabled
        max == IF settings.dynamic_memory_max_mb.some
               THEN put(min, "Reservation", settings.dynamic_memory_max_mb.v)
               ELSE min
        buffer == IF settings.memory_buffer_percentage.some
                  THEN put(max, "TargetMemoryBuffer", settings.memory_buffer_percentage.v)
                  ELSE max
    IN  IF settings.dynamic_memory THEN buffer ELSE startup

\* configure_memory: the puts on the fetched memory settings, in order.
configure_memory(mem_settings, settings) ==
    LET startup == put(put(put(mem_settings, "VirtualQuantity", settings.memory_mb),
                           "Reservation", settings.memory_mb),
                       "Limit", settings.memory_mb)
        enabled == put(startup, "DynamicMemoryEnabled", TRUE)
        min == IF settings.dynamic_memory_min_mb.some
               THEN put(enabled, "Reservation", settings.dynamic_memory_min_mb.v)
               ELSE enabled
        max == IF settings.dynamic_memory_max_mb.some
               THEN put(min, "Limit", settings.dynamic_memory_max_mb.v)
               ELSE min
        buffer == IF settings.memory_buffer_percentage.some
                  THEN put(max, "TargetMemoryBuffer", settings.memory_buffer_percentage.v)
                  ELSE max
    IN  IF settings.dynamic_memory THEN buffer ELSE startup

\* create_vm destroying the system it defined when the query of its
\* setting data fails.
setting_data_with_rollback ==
    /\ At("setting_data")
    /\ UNCHANGED <<vm, gwEnabled, gwJob, op, gwRes, gwPending, last, peer, com>>
    /\ \E answer \in {"WmiQuery", "none", "found"} :
         CASE answer = "WmiQuery" ->
                /\ todo' = <<Step("params", "DestroySystem"),
                             Step("hv_exec", "DestroySystem")>>
                /\ result' = NoResult
                /\ hist' = Touch(hist)
                /\ UNCHANGED frame
           [] answer = "none" ->
                /\ IF Head(todo).m = "Msvm_SecuritySettingData"
                   THEN /\ todo' = SubSeq(todo, 5, Len(todo))
                        /\ result' = NoResult
                        /\ hist' = Touch(hist)
                   ELSE Return(VmNotFound(vm.name), Touch(hist))
                /\ UNCHANGED frame
           [] answer = "found" ->
                /\ Continue(Touch(hist))
                /\ frame' = IF Head(todo).m = "Msvm_MemorySettingData"
                             THEN [frame EXCEPT
                                     !.memory = configure_memory(MemorySettingData,
                                                                 op.settings)]
                             ELSE frame

\* query_first of the memory, processor or security setting data of the VM.
\* configure_memory and configure_processor fail without it;
\* configure_secure_boot then does nothing more.
setting_data ==
    /\ At("setting_data")
    /\ UNCHANGED <<vm, gwEnabled, gwJob, op, gwRes, gwPending, last, peer, com>>
    /\ \E answer \in {"WmiQuery", "none", "found"} :
         CASE answer = "WmiQuery" ->
                /\ Return(GatewayError("WmiQuery", Head(todo).m), Touch(hist))
                /\ UNCHANGED frame
           [] answer = "none" ->
                /\ IF Head(todo).m = "Msvm_SecuritySettingData"
                   THEN /\ todo' = SubSeq(todo, 5, Len(todo))
                        /\ result' = NoResult
                        /\ hist' = Touch(hist)
                   ELSE Return(VmNotFound(vm.name), Touch(hist))
                /\ UNCHANGED frame
           [] answer = "found" ->
                /\ Continue(Touch(hist))
                /\ frame' = IF Head(todo).m = "Msvm_MemorySettingData"
                             THEN [frame EXCEPT
                                     !.memory = configure_memory(MemorySettingData,
                                                                 op.settings)]
                             ELSE frame

\* configure_memory, configure_processor, configure_secure_boot.
configure(class, method) ==
    <<Step("vm_settings", ""), Step("setting_data", class), Step("mgmt_service", ""),
      Step("params", method), Step("hv_exec", method)>>

VmName == <<"T", "e", "s", "t", "V", "M">>

\* A VmSettings that validate accepts, of generation 2 without secure boot.
VmSettingsBase ==
    [name |-> VmName, generation |-> "Gen2", memory_mb |-> 512, processor_count |-> 1,
     dynamic_memory |-> FALSE, dynamic_memory_min_mb |-> None,
     dynamic_memory_max_mb |-> None, memory_buffer_percentage |-> None,
     secure_boot |-> FALSE]

\* Generation 2, 4096 MB with dynamic memory from 512 to 8192 MB, two
\* processors, secure boot.
VmSettingsScenario ==
    [VmSettingsBase EXCEPT !.memory_mb = 4096, !.processor_count = 2,
                           !.dynamic_memory = TRUE,
                           !.dynamic_memory_min_mb = Some(512),
                           !.dynamic_memory_max_mb = Some(8192),
                           !.secure_boot = TRUE]

\* VM settings: accepted ones of both generations, and one for each test
\* of validate that refuses.
VmSettings ==
    {VmSettingsBase,
     VmSettingsScenario,
     [VmSettingsBase EXCEPT !.generation = "Gen1",
                            !.memory_mb = 32, !.processor_count = 240],
     [VmSettingsBase EXCEPT !.name = <<>>],
     [VmSettingsBase EXCEPT !.name = Chars(101, "a")],
     [VmSettingsBase EXCEPT !.name = <<"V", "M", ":", "1">>],
     [VmSettingsBase EXCEPT !.memory_mb = 31],
     [VmSettingsBase EXCEPT !.memory_mb = 12582913],
     [VmSettingsBase EXCEPT !.processor_count = 0],
     [VmSettingsBase EXCEPT !.processor_count = 241],
     [VmSettingsBase EXCEPT !.dynamic_memory = TRUE, !.dynamic_memory_min_mb = Some(16)],
     [VmSettingsBase EXCEPT !.dynamic_memory = TRUE, !.dynamic_memory_min_mb = Some(1024)],
     [VmSettingsBase EXCEPT !.dynamic_memory = TRUE, !.dynamic_memory_max_mb = Some(256)],
     [VmSettingsBase EXCEPT !.dynamic_memory = TRUE, !.memory_buffer_percentage = Some(101)],
     [VmSettingsBase EXCEPT !.generation = "Gen1", !.secure_boot = TRUE]}

\* create_vm after validate.  The handle refreshed at the end is the handle
\* of the VM created; a generation 2 VM gets its SCSI controller.
create_vm_body(settings) ==
    <<Step("mgmt_service", ""), Step("spawn", "system_settings"),
      Step("params", "DefineSystem"), Step("hv_exec", "DefineSystem"),
      Step("resulting", "DefineSystem"), Step("get_created", "vm")>>
    \o configure("Msvm_MemorySettingData", "ModifyResourceSettings")
    \o configure("Msvm_ProcessorSettingData", "ModifyResourceSettings")
    \o (IF settings.generation = "Gen2" /\ settings.secure_boot
        THEN configure("Msvm_SecuritySettingData", "ModifySecuritySettings")
        ELSE <<>>)
    \o (IF settings.generation = "Gen2"
        THEN <<Step("vm_settings", ""), Step("spawn", "controller"),
               Step("mgmt_service", ""), Step("params", "AddResourceSettings"),
               Step("add_exec", "controller")>>
        ELSE <<>>)
    \o refresh_body

\* The VM to create has no device yet.
create_vm ==
    \E settings \in VmSettings :
        /\ gwRes = <<>>
        /\ Enter([Idle EXCEPT !.name = "create_vm", !.settings = settings],
                 VmSettings_validate(settings) = Valid,
                 GatewayError("Validation", VmSettings_validate(settings)),
                 create_vm_body(settings))

Mac == <<"0", "0", ":", "1", "5", ":", "5", "D", ":", "0", "0", ":", "0", "a", ":", "F", "F">>

\* No MAC address given.
NoMac == [some |-> FALSE, v |-> <<>>]

\* No switch named.
NoSwitch == [some |-> FALSE, v |-> ""]

SwitchNames == {"External"}

\* Adapter settings: no address, addresses with either separator, a short
\* one, one with a letter that is no hex digit; VLAN ids at the limit; a
\* switch to connect to.
NetworkAdapterSettings ==
    {[mac_address |-> m, vlan_id |-> None, switch_name |-> NoSwitch] :
        m \in {NoMac, Some(<<"0", "0", "-", "1", "5", "-", "5", "d", "-",
                                      "0", "0", "-", "0", "0", "-", "0", "1">>),
               Some(SubSeq(Mac, 1, 14)),
               Some([Mac EXCEPT ![1] = "G"])}}
    \cup {[mac_address |-> Some(Mac), vlan_id |-> Some(v), switch_name |-> NoSwitch] :
            v \in {4094, 4095}}
    \cup {[mac_address |-> NoMac, vlan_id |-> None, switch_name |-> Some(sw)] :
            sw \in SwitchNames}

\* The synthetic adapters among the VM's resources (their paths).
Adapters(resources) ==
    {i \in DOMAIN resources : resources[i].subtype = "Synthetic Ethernet Port"}

\* list_network_adapters and the last adapter of the list.  The result set
\* has the VM's adapters in the order the gateway chooses.
list_adapters ==
    /\ At("list_adapters")
    /\ UNCHANGED <<vm, gwEnabled, gwJob, op, gwRes, gwPending, last, peer, com>>
    /\ \E answer \in {"WmiQuery"} \cup (IF Adapters(gwRes) = {} THEN {"empty"}
                                       ELSE {"MissingRequired", "TypeConversion", "found"}) :
         CASE answer = "empty" ->
                /\ Return(OperationFailed("AddNetworkAdapter", 0), Touch(hist))
                /\ UNCHANGED frame
           [] answer = "found" ->
                /\ Continue(Touch(hist))
                /\ \E a \in Adapters(gwRes) : frame' = [frame EXCEPT !.adapter_path = a]
           [] OTHER ->
                /\ Return(GatewayError(answer, "list_network_adapters"), Touch(hist))
                /\ UNCHANGED frame

\* add_network_adapter with the connection the settings ask for.
add_network_adapter_connected ==
    \E settings \in NetworkAdapterSettings :
        Enter([Idle EXCEPT !.name = "add_network_adapter", !.settings = settings,
                           !.switch = settings.switch_name.v],
              NetworkAdapterSettings_validate(settings) = Valid,
              GatewayError("Validation", NetworkAdapterSettings_validate(settings)),
              <<Step("vm_settings", ""), Step("mgmt_service", ""),
                Step("spawn", "adapter"), Step("params", "AddResourceSettings"),
                Step("add_exec", "adapter")>>
              \o (IF settings.switch_name.some
                  THEN <<Step("switch_settings", ""), Step("spawn", "port"),
                         Step("params", "AddResourceSettings"), Step("add_exec", "port")>>
                  ELSE <<>>)
              \o <<Step("list_adapters", "")>>)

add_network_adapter ==
    \E settings \in NetworkAdapterSettings :
        Enter([Idle EXCEPT !.name = "add_network_adapter", !.settings = settings],
              NetworkAdapterSettings_validate(settings) = Valid,
              GatewayError("Validation", NetworkAdapterSettings_validate(settings)),
              <<Step("vm_settings", ""), Step("mgmt_service", ""),
                Step("spawn", "adapter"), Step("params", "AddResourceSettings"),
                Step("add_exec", "adapter"), Step("list_adapters", "")>>)

\* The path of a switch's settings document.
SwitchSettingsPath(switch) == <<"Msvm_VirtualEthernetSwitchSettingData", switch>>

\* connect_adapter_to_switch: query_first of the switch's settings, get_path.
switch_settings ==
    /\ At("switch_settings")
    /\ UNCHANGED <<vm, gwEnabled, gwJob, op, gwRes, gwPending, last, peer, com>>
    /\ \E answer \in {"WmiQuery", "none", "MissingRequired", "found"} :
         CASE answer = "WmiQuery" ->
                /\ Return(GatewayError("WmiQuery", "Msvm_VirtualEthernetSwitchSettingData"),
                          Touch(hist))
                /\ UNCHANGED frame
           [] answer = "none" ->
                /\ Return(GatewayError("SwitchNotFound", op.switch), Touch(hist))
                /\ UNCHANGED frame
           [] answer = "MissingRequired" ->
                /\ Return(GatewayError("MissingRequired", "__PATH"), Touch(hist))
                /\ UNCHANGED frame
           [] answer = "found" ->
                /\ Continue(Touch(hist))
                /\ frame' = [frame EXCEPT !.switch_path = SwitchSettingsPath(op.switch)]

\* The adapter handle is one list_network_adapters or add_network_adapter
\* returned; the switch handle one get_switch returned at some earlier time.
connect_adapter_to_switch ==
    \E adapter \in Adapters(gwRes) : \E switch \in SwitchNames :
        Enter([Idle EXCEPT !.name = "connect_adapter_to_switch",
                           !.adapter = adapter, !.switch = switch],
              TRUE, NoResult,
              <<Step("vm_settings", ""), Step("mgmt_service", ""),
                Step("switch_settings", ""), Step("spawn", "port"),
                Step("params", "AddResourceSettings"), Step("add_exec", "port")>>)

(***************************************************************************)
(* storage/vhd.rs: VhdManager                                              *)
(***************************************************************************)
get_image_service ==
    /\ At("image_service")
    /\ service_lookup("Msvm_ImageManagementService")

\* VhdManager::handle_job_result.
vhd_handle_job_result(out, operation) ==
    LET rv == get_u32(out.rv)
        return_value == unwrap_or(rv, 0)
        job == get_string_prop(out.job)
    IN  IF rv.err
        THEN [next |-> "err", job_path |-> "", res |-> GatewayError("TypeConversion", "u32")]
        ELSE IF return_value = 0
        THEN [next |-> "ok", job_path |-> "", res |-> Ok]
        ELSE IF return_value = Queued
        THEN IF job.err
             THEN [next |-> "err", job_path |-> "",
                   res |-> GatewayError("TypeConversion", "String")]
             ELSE IF job.some
             THEN [next |-> "wait", job_path |-> job.v, res |-> Ok]
             ELSE [next |-> "ok", job_path |-> "", res |-> Ok]
        ELSE [next |-> "err", job_path |-> "",
              res |-> OperationFailed(operation, return_value)]

vhd_exec ==
    /\ At("vhd_exec")
    /\ UNCHANGED <<vm, op, gwRes, gwPending, frame, last, peer, com>>
    /\ \/ exec_failed(Head(todo).m)
       \/ \E out \in OutParams : \E doc \in JobFor(out) :
            exec_and_handle(Head(todo).m, "vhd_wait", out, doc,
                            vhd_handle_job_result(out, Head(todo).m))

\* A monitor that gives up: a job it reads in no terminal state ends the
\* wait with a failure.
vhd_wait_iter_with_timeout(job, operation) ==
    LET js == get_u16(job.state)
        job_state == unwrap_or(js, 0)
    IN  IF js.err
        THEN [next |-> "return", res |-> GatewayError("TypeConversion", "u16")]
        ELSE IF job_state = 7
        THEN [next |-> "return", res |-> Ok]
        ELSE [next |-> "return", res |-> JobFailed(operation, 0, "")]

\* One iteration of VhdManager::wait_for_job on the fetched document.
vhd_wait_iter(job, operation) ==
    LET js == get_u16(job.state)
        job_state == unwrap_or(js, 0)
        ec == get_u32(job.ec)
        ed == get_string_prop(job.ed)
    IN  IF js.err
        THEN [next |-> "return", res |-> GatewayError("TypeConversion", "u16")]
        ELSE IF job_state = 7
        THEN [next |-> "return", res |-> Ok]
        ELSE IF job_state \in {8, 9, 10, 11}
        THEN IF ec.err
             THEN [next |-> "return", res |-> GatewayError("TypeConversion", "u32")]
             ELSE IF ed.err
             THEN [next |-> "return", res |-> GatewayError("TypeConversion", "String")]
             ELSE [next |-> "return",
                   res |-> JobFailed(operation, unwrap_or(ec, 0), unwrap_or(ed, ""))]
        ELSE [next |-> "sleep", res |-> NoResult]

vhd_wait_for_job ==
    /\ At("vhd_wait")
    /\ UNCHANGED <<vm, gwEnabled, gwJob, op, gwRes, gwPending, frame, last, peer, com>>
    /\ Poll(vhd_wait_iter(JobAt(Head(todo).job_path), Head(todo).m),
            JobAt(Head(todo).job_path))

VhdPaths == {"disk.vhdx"}

\* VhdManager::resize, ::compact and ::merge: the image service, the
\* parameters, one invocation.
vhd_simple(name, method) ==
    \E path \in VhdPaths :
        Enter([Idle EXCEPT !.name = name, !.arg = path], TRUE, NoResult,
              <<Step("image_service", ""), Step("params", method),
                Step("vhd_exec", method)>>)

vhd_resize == vhd_simple("resize", "ResizeVirtualHardDisk")

vhd_compact == vhd_simple("compact", "CompactVirtualHardDisk")

vhd_merge == vhd_simple("merge", "MergeVirtualHardDisk")

\* A VhdSettings that validate accepts: 100 GB, dynamic, VHDX.
VhdSettingsBase ==
    [path |-> DiskPath, format |-> "Vhdx", disk_type |-> "Dynamic", size |-> 100 * 1024,
     parent_path |-> None, logical_sector_size |-> None, physical_sector_size |-> None]

VhdFilePath == <<"D", ".", "V", "H", "D">>

\* Virtual disk settings: two that validate accepts (a dynamic VHDX; a
\* differencing VHD of size 0 with sector sizes 512 and 4096), and one for
\* each test of validate that refuses, the sector size tests on disks at
\* the size limit of their format.
VhdSettings ==
    {VhdSettingsBase,
     [VhdSettingsBase EXCEPT !.format = "Vhd", !.path = VhdFilePath,
                             !.disk_type = "Differencing", !.size = 0,
                             !.parent_path = Some(1),
                             !.logical_sector_size = Some(512),
                             !.physical_sector_size = Some(4096)],
     [VhdSettingsBase EXCEPT !.size = VhdxMaxSize, !.logical_sector_size = Some(1024)],
     [VhdSettingsBase EXCEPT !.path = <<>>],
     [VhdSettingsBase EXCEPT !.format = "Vhd"],
     [VhdSettingsBase EXCEPT !.path = VhdFilePath],
     [VhdSettingsBase EXCEPT !.size = 0],
     [VhdSettingsBase EXCEPT !.format = "Vhd", !.path = VhdFilePath,
                             !.size = VhdMaxSize + 1],
     [VhdSettingsBase EXCEPT !.size = VhdxMaxSize + 1],
     [VhdSettingsBase EXCEPT !.disk_type = "Differencing"],
     [VhdSettingsBase EXCEPT !.format = "Vhd", !.path = VhdFilePath, !.size = VhdMaxSize,
                             !.physical_sector_size = Some(1024)]}

\* VhdManager::create and ::convert: validate, the creating method, get_info.
\* The caller writes its images before it gives the VM its devices.
vhd_creating(name, method) ==
    \E settings \in VhdSettings :
        /\ gwRes = <<>>
        /\ Enter([Idle EXCEPT !.name = name, !.settings = settings],
                 VhdSettings_validate(settings) = Valid,
                 GatewayError("Validation", VhdSettings_validate(settings)),
                 <<Step("image_service", ""), Step("spawn", "vhd_settings"),
                   Step("params", method), Step("vhd_exec", method),
                   Step("image_service", ""),
                   Step("params", "GetVirtualHardDiskSettingData"),
                   Step("vhd_exec", "GetVirtualHardDiskSettingData")>>)

vhd_create == vhd_creating("create", "CreateVirtualHardDisk")

vhd_convert == vhd_creating("convert", "ConvertVirtualHardDisk")

(***************************************************************************)
(* The gateway and the caller.                                             *)
(***************************************************************************)
\* The VM changes state at the gateway (guest activity, other clients).
gateway_state_change ==
    /\ \E p \in EnabledProps \ {gwEnabled} : gwEnabled' = p
    /\ UNCHANGED <<vm, gwJob, op, todo, result, hist, gwRes, gwPending, frame, last, peer, com>>

\* The gateway advances the job a monitor is waiting for; a job that
\* completes has carried out its request: it adds its resource, the VM is
\* in the state requested.
job_progress ==
    /\ pc \in {"vm_wait", "hv_wait", "vhd_wait"}
    /\ ~IsTerminalProp(gwJob.state)
    /\ \E doc \in JobDocs \ {gwJob} :
         /\ gwJob' = doc
         /\ gwEnabled' \in
               (IF doc.state = Val(JobCompleted)
                THEN gateway_effect(hist.invokes[Len(hist.invokes)].method,
                                    hist.invokes[Len(hist.invokes)].code)
                ELSE {gwEnabled})
         /\ gwRes' = IF gwPending # NoRes /\ doc.state = Val(JobCompleted)
                     THEN Append(gwRes, gwPending) ELSE gwRes
         /\ gwPending' = IF IsTerminalProp(doc.state) THEN NoRes ELSE gwPending
         /\ hist' = IF doc.state # Val(JobCompleted) THEN hist
                    ELSE IF gwPending # NoRes
                    THEN [hist EXCEPT !.added = Len(gwRes) + 1]
                    ELSE gateway_systems(hist, hist.invokes[Len(hist.invokes)].method)
    /\ UNCHANGED <<vm, op, todo, result, frame, last, peer, com>>

\* The position of a scripted caller after the call returned: it goes on
\* after a call that succeeded, and after the refused apply it expected;
\* it gives up (stage 9) when create or stop failed.
next_stage ==
    CASE last.stage = 1 -> IF result = Ok THEN 2 ELSE 9
      [] last.stage = 2 -> IF result.kind = "InvalidState" THEN 3 ELSE 9
      [] last.stage = 3 -> IF result = Ok THEN 4 ELSE 9
      [] last.stage = 4 -> 5
      [] OTHER -> last.stage

\* The caller takes the returned value; the handle is free for the next call.
call_returns ==
    /\ pc = "done"
    /\ op' = Idle
    /\ todo' = <<>>
    /\ result' = NoResult
    /\ hist' = NoHist
    /\ gwJob' = NoJob
    /\ gwPending' = NoRes
    /\ frame' = NoFrame
    /\ last' = IF op.name = "find_or_create_controller"
               THEN [NoLast EXCEPT !.controller_type = op.controller_type,
                                   !.controller_number = op.controller_number,
                                   !.ok = result = Ok,
                                   !.size0 = frame.size0]
               ELSE [NoLast EXCEPT !.stage = next_stage,
                                   !.checkpoint = IF last.stage = 0 THEN ""
                                                  ELSE IF op.name = "create_checkpoint"
                                                  THEN hist.resulting
                                                  ELSE last.checkpoint]
    /\ vm' = IF op.name = "create_vm" /\ result # Ok /\ frame.caller_vm # NoVm
             THEN frame.caller_vm ELSE vm
    /\ UNCHANGED <<gwEnabled, gwRes, peer, com>>

\* A handle obtained by from_wmi at some earlier time: any state, while the
\* gateway has moved on.
Init ==
    /\ vm \in [name : VmNames, state : VmState, generation : {"Gen2"}]
    /\ gwEnabled \in EnabledProps
    /\ gwJob = NoJob
    /\ op = Idle
    /\ todo = <<>>
    /\ result = NoResult
    /\ hist = NoHist
    /\ gwRes = <<>>
    /\ gwPending = NoRes
    /\ frame = NoFrame
    /\ last = NoLast
    /\ peer = NoPeer
    /\ com = NoCom

Next ==
    \/ start
    \/ stop
    \/ pause
    \/ resume
    \/ save
    \/ reset
    \/ refresh
    \/ apply_checkpoint
    \/ delete_checkpoint
    \/ create_checkpoint
    \/ vhd_resize
    \/ vhd_compact
    \/ vhd_merge
    \/ rsc_params
    \/ rsc_exec
    \/ vm_wait_for_job
    \/ gs_query
    \/ gs_params
    \/ gs_exec
    \/ refresh_step
    \/ get_management_service
    \/ get_image_service
    \/ get_method_params
    \/ hv_exec
    \/ hv_wait_for_job
    \/ spawn_instance
    \/ resulting_path
    \/ get_created
    \/ vhd_exec
    \/ vhd_wait_for_job
    \/ gateway_state_change
    \/ job_progress
    \/ call_returns

Spec == Init /\ [][Next]_vars

IdeController(n) ==
    [NoRes EXCEPT !.subtype = "Emulated IDE Controller", !.address = SVal(Numeral(n))]

\* The VM's resources when provisioning starts: none; one IDE controller;
\* an IDE controller with a disk drive at location 0.
InitialResources ==
    {<<>>,
     <<IdeController(0)>>,
     <<IdeController(1),
       [NoRes EXCEPT !.subtype = "Synthetic Disk Drive", !.parent = 1,
                     !.location = Val(0)]>>}

InitProv ==
    /\ vm = [name |-> TestVM, state |-> "Off", generation |-> "Gen2"]
    /\ gwEnabled = Val(3)
    /\ gwJob = NoJob
    /\ op = Idle
    /\ todo = <<>>
    /\ result = NoResult
    /\ hist = NoHist
    /\ gwRes \in InitialResources
    /\ gwPending = NoRes
    /\ frame = NoFrame
    /\ last = NoLast
    /\ peer = NoPeer
    /\ com = NoCom

NextProv ==
    \/ find_or_create_controller
    \/ attach_vhd
    \/ mount_iso
    \/ get_vm_settings
    \/ foc_scan
    \/ foc_requery
    \/ spawn_instance
    \/ get_management_service
    \/ get_method_params
    \/ add_exec
    \/ hv_wait_for_job
    \/ find_drive
    \/ job_progress
    \/ call_returns

SpecProv == InitProv /\ [][NextProv]_vars

(***************************************************************************)
(* The operations that take settings, called in any order on one VM.       *)
(***************************************************************************)
NextSettings ==
    \/ create_vm
    \/ attach_vhd
    \/ mount_iso
    \/ add_network_adapter
    \/ create_checkpoint
    \/ vhd_create
    \/ vhd_convert
    \/ get_vm_settings
    \/ setting_data
    \/ foc_scan
    \/ foc_requery
    \/ spawn_instance
    \/ get_management_service
    \/ get_image_service
    \/ get_method_params
    \/ hv_exec
    \/ vhd_exec
    \/ add_exec
    \/ hv_wait_for_job
    \/ vhd_wait_for_job
    \/ find_drive
    \/ list_adapters
    \/ resulting_path
    \/ get_created
    \/ refresh_step
    \/ job_progress
    \/ call_returns

\* The VM has no device yet.
InitSettings ==
    /\ InitProv
    /\ gwRes = <<>>

SpecSettings == InitSettings /\ [][NextSettings]_vars

(***************************************************************************)
(* wmi/connection.rs: WmiConnection::connect_to, called on several threads.*)
(***************************************************************************)
MaxConnects == 2

\* A static shared by all threads.
SharedCell(t) == 1

\* thread_local!: the cell of COM_INITIALIZED that thread t sees.
Cell(t) == t

\* connect_to is called on thread t.
connect_to(t) ==
    /\ com.thread[t].pc = "idle"
    /\ com.thread[t].calls < MaxConnects
    /\ com' = [com EXCEPT !.thread[t].pc = "init_com", !.thread[t].calls = @ + 1]
    /\ UNCHANGED <<vm, gwEnabled, gwJob, op, todo, result, hist, gwRes, gwPending, frame,
                   last, peer>>

\* init_com: CoInitializeEx and CoInitializeSecurity, whose results are
\* dropped, unless the thread's cell is set; then the cell is set.
init_com(t) ==
    /\ com.thread[t].pc = "init_com"
    /\ com' = [com EXCEPT
                 !.COM_INITIALIZED[Cell(t)] = TRUE,
                 !.thread[t].initialized =
                     IF com.COM_INITIALIZED[Cell(t)] THEN @ ELSE @ + 1,
                 !.thread[t].cells = @ \cup {Cell(t)},
                 !.thread[t].pc = "locator"]
    /\ UNCHANGED <<vm, gwEnabled, gwJob, op, todo, result, hist, gwRes, gwPending, frame,
                   last, peer>>

\* CoCreateInstance, ConnectServer, CoSetProxyBlanket: each may fail, and
\* connect_to then returns WmiConnection; after the last the connection
\* is created.
connect_step(t) ==
    /\ com.thread[t].pc \in {"locator", "connect_server", "proxy_blanket"}
    /\ \E ok \in BOOLEAN :
         com' = [com EXCEPT
                   !.thread[t].pc =
                       IF ~ok THEN "idle"
                       ELSE CASE @ = "locator" -> "connect_server"
                              [] @ = "connect_server" -> "proxy_blanket"
                              [] @ = "proxy_blanket" -> "idle",
                   !.thread[t].connections =
                       IF ok /\ com.thread[t].pc = "proxy_blanket" THEN @ + 1 ELSE @]
    /\ UNCHANGED <<vm, gwEnabled, gwJob, op, todo, result, hist, gwRes, gwPending, frame,
                   last, peer>>

NextCom ==
    \/ \E t \in Threads : connect_to(t)
    \/ \E t \in Threads : init_com(t)
    \/ \E t \in Threads : connect_step(t)

SpecCom == InitSettings /\ [][NextCom]_vars

(***************************************************************************)
(* vm/state.rs, storage/vhd.rs: enumerations and their numeric codes.      *)
(***************************************************************************)
CheckpointType == {"Disabled", "Production", "ProductionOnly", "Standard"}

CheckpointType_to_value(self) ==
    CASE self = "Disabled" -> 0
      [] self = "Production" -> 1
      [] self = "ProductionOnly" -> 2
      [] self = "Standard" -> 3

\* from_value with the arms of 2 and 3 exchanged.
CheckpointType_from_value_exchanged(value) ==
    CASE value = 0 -> "Disabled"
      [] value = 1 -> "Production"
      [] value = 2 -> "Standard"
      [] value = 3 -> "ProductionOnly"
      [] OTHER -> "Production"

CheckpointType_from_value(value) ==
    CASE value = 0 -> "Disabled"
      [] value = 1 -> "Production"
      [] value = 2 -> "ProductionOnly"
      [] value = 3 -> "Standard"
      [] OTHER -> "Production"

AutomaticStartAction == {"Nothing", "StartIfRunning", "AlwaysStart"}

AutomaticStartAction_to_value(self) ==
    CASE self = "Nothing" -> 0
      [] self = "StartIfRunning" -> 1
      [] self = "AlwaysStart" -> 2

AutomaticStartAction_from_value(value) ==
    CASE value = 0 -> "Nothing"
      [] value = 1 -> "StartIfRunning"
      [] value = 2 -> "AlwaysStart"
      [] OTHER -> "Nothing"

AutomaticStopAction == {"TurnOff", "Save", "Shutdown"}

AutomaticStopAction_to_value(self) ==
    CASE self = "TurnOff" -> 0
      [] self = "Save" -> 1
      [] self = "Shutdown" -> 2

AutomaticStopAction_from_value(value) ==
    CASE value = 0 -> "TurnOff"
      [] value = 1 -> "Save"
      [] value = 2 -> "Shutdown"
      [] OTHER -> "Save"

VhdType == {"Fixed", "Dynamic", "Differencing"}

VhdType_to_wmi_value(self) ==
    CASE self = "Fixed" -> 2
      [] self = "Dynamic" -> 3
      [] self = "Differencing" -> 4

VhdType_from_wmi_value(value) ==
    CASE value = 2 -> "Fixed"
      [] value = 3 -> "Dynamic"
      [] value = 4 -> "Differencing"
      [] OTHER -> "Dynamic"

Enumerations ==
    {"VmState", "CheckpointType", "AutomaticStartAction", "AutomaticStopAction",
     "VhdType"}

Values(enum) ==
    CASE enum = "VmState" -> VmState
      [] enum = "CheckpointType" -> CheckpointType
      [] enum = "AutomaticStartAction" -> AutomaticStartAction
      [] enum = "AutomaticStopAction" -> AutomaticStopAction
      [] enum = "VhdType" -> VhdType

to_value(enum, self) ==
    CASE enum = "VmState" -> VmStateCode(self)
      [] enum = "CheckpointType" -> CheckpointType_to_value(self)
      [] enum = "AutomaticStartAction" -> AutomaticStartAction_to_value(self)
      [] enum = "AutomaticStopAction" -> AutomaticStopAction_to_value(self)
      [] enum = "VhdType" -> VhdType_to_wmi_value(self)

from_value(enum, value) ==
    CASE enum = "VmState" -> from_enabled_state(value)
      [] enum = "CheckpointType" -> CheckpointType_from_value(value)
      [] enum = "AutomaticStartAction" -> AutomaticStartAction_from_value(value)
      [] enum = "AutomaticStopAction" -> AutomaticStopAction_from_value(value)
      [] enum = "VhdType" -> VhdType_from_wmi_value(value)

\* The u16 values the conversions are given: the small ones, those around
\* the codes of VmState above 32767, and the largest.
MaxSmallCode == 8
Codes == (0..MaxSmallCode) \cup (32766..32778) \cup {U16 - 1}

\* A value is converted to its code, and the code back to a value.
value_to_code_and_back ==
    /\ op.name = "idle"
    /\ \E enum \in Enumerations : \E self \in Values(enum) :
         /\ op' = [Idle EXCEPT !.name = "to_value", !.arg = enum,
                               !.settings = [value |-> self]]
         /\ frame' = [NoFrame EXCEPT !.code = to_value(enum, self),
                                     !.value = from_value(enum, to_value(enum, self))]
    /\ todo' = <<>>
    /\ hist' = Touch(NoHist)
    /\ result' = Ok
    /\ UNCHANGED <<vm, gwEnabled, gwJob, gwRes, gwPending, last, peer, com>>

\* A code read from the gateway is converted to a value.
code_to_value ==
    /\ op.name = "idle"
    /\ \E enum \in Enumerations : \E value \in Codes :
         /\ op' = [Idle EXCEPT !.name = "from_value", !.arg = enum,
                               !.settings = [code |-> value]]
         /\ frame' = [NoFrame EXCEPT !.code = value,
                                     !.value = from_value(enum, value)]
    /\ todo' = <<>>
    /\ hist' = Touch(NoHist)
    /\ result' = Ok
    /\ UNCHANGED <<vm, gwEnabled, gwJob, gwRes, gwPending, last, peer, com>>

NextEnum ==
    \/ value_to_code_and_back
    \/ code_to_value
    \/ call_returns

SpecEnum == InitSettings /\ [][NextEnum]_vars

(***************************************************************************)
(* Settings given to validate alone.                                       *)
(***************************************************************************)
MemorySizes == {31, 32, 4096, 12582912, 12582913}

ProcessorCounts == {0, 1, 240, 241}

\* VM settings around every limit validate tests, with dynamic memory
\* enabled and disabled.
VmSettingsToValidate ==
    {[VmSettingsBase EXCEPT !.generation = generation, !.memory_mb = memory_mb,
                            !.processor_count = processor_count,
                            !.dynamic_memory = dynamic_memory,
                            !.dynamic_memory_min_mb = min,
                            !.dynamic_memory_max_mb = max,
                            !.memory_buffer_percentage = buffer,
                            !.secure_boot = secure_boot] :
        generation \in {"Gen1", "Gen2"}, memory_mb \in MemorySizes,
        processor_count \in ProcessorCounts, dynamic_memory \in BOOLEAN,
        min \in {None, Some(31), Some(32), Some(4096), Some(4097)},
        max \in {None, Some(31), Some(4095), Some(4096), Some(12582913)},
        buffer \in {None, Some(100), Some(101)}, secure_boot \in BOOLEAN}

\* VmSettings::validate is called and returns.
validate_vm_settings ==
    /\ op.name = "idle"
    /\ \E settings \in VmSettingsToValidate :
         /\ op' = [Idle EXCEPT !.name = "VmSettings::validate", !.settings = settings]
         /\ result' = IF VmSettings_validate(settings) = Valid THEN Ok
                      ELSE GatewayError("Validation", VmSettings_validate(settings))
    /\ todo' = <<>>
    /\ hist' = Touch(NoHist)
    /\ frame' = NoFrame
    /\ UNCHANGED <<vm, gwEnabled, gwJob, gwRes, gwPending, last, peer, com>>

\* Paths of both extensions in either case, with a further extension, and
\* without one.
VhdPathsToValidate ==
    {DiskPath, VhdFilePath, <<"d", ".", "v", "h", "d">>, <<"D", ".", "V", "H", "D", "X">>,
     <<"d", ".", "v", "h", "d", ".", "i", "s", "o">>, <<"d", "v", "h", "d">>}

\* Sizes in MiB: none, the least, and the cap of each format and the next.
VhdSizes == {0, 1, VhdMaxSize, VhdMaxSize + 1, VhdxMaxSize, VhdxMaxSize + 1}

VhdSettingsToValidate ==
    [path : VhdPathsToValidate, format : {"Vhd", "Vhdx"}, disk_type : VhdType,
     size : VhdSizes, parent_path : {None, Some(1)},
     logical_sector_size : {None, Some(512), Some(4096), Some(1024)},
     physical_sector_size : {None, Some(512), Some(4096), Some(513)}]

\* VhdSettings::validate is called and returns.
validate_vhd_settings ==
    /\ op.name = "idle"
    /\ \E settings \in VhdSettingsToValidate :
         /\ op' = [Idle EXCEPT !.name = "VhdSettings::validate", !.settings = settings]
         /\ result' = IF VhdSettings_validate(settings) = Valid THEN Ok
                      ELSE GatewayError("Validation", VhdSettings_validate(settings))
    /\ todo' = <<>>
    /\ hist' = Touch(NoHist)
    /\ frame' = NoFrame
    /\ UNCHANGED <<vm, gwEnabled, gwJob, gwRes, gwPending, last, peer, com>>

NextVhdSettings ==
    \/ validate_vhd_settings
    \/ call_returns

SpecVhdSettings == InitSettings /\ [][NextVhdSettings]_vars

SwitchType == {"External", "Internal", "Private"}

BandwidthReservationMode == {"None", "Default", "Weight", "Absolute"}

\* Switch settings of every type and bandwidth mode, with and without a
\* physical adapter, with weights at and beyond both limits.
VirtualSwitchSettings ==
    [name : {<<"L", "A", "N">>}, switch_type : SwitchType,
     allow_management_os : BOOLEAN, external_adapter_id : {None, Some(1)},
     enable_iov : BOOLEAN, bandwidth_reservation_mode : BandwidthReservationMode,
     default_flow_min_bandwidth_mbps : {None, Some(1000)},
     default_flow_min_bandwidth_weight : {None, Some(0), Some(1), Some(100), Some(101)},
     enable_packet_direct : BOOLEAN, enable_embedded_teaming : {FALSE}]

\* VirtualSwitchSettings::validate is called and returns.
validate_switch_settings ==
    /\ op.name = "idle"
    /\ \E settings \in VirtualSwitchSettings :
         /\ op' = [Idle EXCEPT !.name = "VirtualSwitchSettings::validate",
                               !.settings = settings]
         /\ result' = IF VirtualSwitchSettings_validate(settings) = Valid THEN Ok
                      ELSE GatewayError("Validation",
                                        VirtualSwitchSettings_validate(settings))
    /\ todo' = <<>>
    /\ hist' = Touch(NoHist)
    /\ frame' = NoFrame
    /\ UNCHANGED <<vm, gwEnabled, gwJob, gwRes, gwPending, last, peer, com>>

NextSwitchSettings ==
    \/ validate_switch_settings
    \/ call_returns

SpecSwitchSettings == InitSettings /\ [][NextSwitchSettings]_vars

NextVmSettings ==
    \/ validate_vm_settings
    \/ call_returns

SpecVmSettings == InitSettings /\ [][NextVmSettings]_vars

(***************************************************************************)
(* One handle used for lifecycle, checkpoint and device operations while   *)
(* the VM changes state at the gateway.                                    *)
(***************************************************************************)
InitCache ==
    /\ vm \in [name : {TestVM}, state : {"Off", "Running"}, generation : {"Gen2"}]
    /\ gwEnabled \in {Val(2), Val(3)}
    /\ gwJob = NoJob
    /\ op = Idle
    /\ todo = <<>>
    /\ result = NoResult
    /\ hist = NoHist
    /\ gwRes = <<IdeController(0)>>
    /\ gwPending = NoRes
    /\ frame = NoFrame
    /\ last = NoLast
    /\ peer = NoPeer
    /\ com = NoCom

\* A request made through another handle of the VM is carried out: the
\* VM is started or turned off.
other_handle_state_change ==
    /\ \E p \in {Val(2), Val(3)} \ {gwEnabled} : gwEnabled' = p
    /\ UNCHANGED <<vm, gwJob, op, todo, result, hist, gwRes, gwPending, frame, last, peer, com>>

\* The caller's media go to location 0 of IDE controller 0.
AtIde0(path) ==
    [path |-> path, controller_type |-> "Ide", controller_number |-> 0,
     controller_location |-> 0]

attach_vhd_at_ide0 ==
    Enter(Attach("attach_vhd", AtIde0(DiskPath)),
          DiskAttachment_validate(AtIde0(DiskPath)) = Valid,
          GatewayError("Validation", DiskAttachment_validate(AtIde0(DiskPath))),
          attach_body)

mount_iso_at_ide0 ==
    Enter(Attach("mount_iso", AtIde0(IsoPath)),
          IsoAttachment_validate(AtIde0(IsoPath)) = Valid,
          GatewayError("Validation", IsoAttachment_validate(AtIde0(IsoPath))),
          attach_body)

NextCache ==
    \/ refresh
    \/ start
    \/ stop
    \/ apply_checkpoint
    \/ create_checkpoint
    \/ delete_checkpoint
    \/ attach_vhd_at_ide0
    \/ mount_iso_at_ide0
    \/ add_network_adapter
    \/ rsc_params
    \/ rsc_exec
    \/ vm_wait_for_job
    \/ gs_query
    \/ gs_params
    \/ gs_exec
    \/ refresh_step
    \/ get_management_service
    \/ get_method_params
    \/ hv_exec
    \/ hv_wait_for_job
    \/ spawn_instance
    \/ resulting_path
    \/ get_created
    \/ get_vm_settings
    \/ foc_scan
    \/ add_exec
    \/ find_drive
    \/ list_adapters
    \/ other_handle_state_change
    \/ job_progress
    \/ call_returns

SpecCache == InitCache /\ [][NextCache]_vars

(***************************************************************************)
(* The three handlers of an invocation's output parameters, each with its  *)
(* job monitor, given the same answers.                                    *)
(***************************************************************************)
MaxPolls == 2

\* What get_object(job_path) answers: a job document, or an error.
PollAnswers ==
    {[err |-> FALSE, doc |-> d] : d \in JobDocs \cup {NoJob}}
        \cup {[err |-> TRUE, doc |-> NoJob]}

\* The answers to the polls of the job at job_path, first first.
PollSequences(job_path) ==
    LET answers == IF job_path = SVal("job1") THEN PollAnswers
                   ELSE {a \in PollAnswers : a.doc = NoJob}
    IN  UNION {[1..n -> answers] : n \in 0..MaxPolls}

Implementations == <<"HyperV", "VhdManager", "VirtualMachine">>

handle(impl, out) ==
    CASE impl = "HyperV" -> hv_handle_job_result(out, "AddResourceSettings")
      [] impl = "VhdManager" -> vhd_handle_job_result(out, "ResizeVirtualHardDisk")
      [] impl = "VirtualMachine" -> rsc_match(out, "Running")

wait_iter(impl, job) ==
    CASE impl = "HyperV" -> hv_wait_iter(job, "AddResourceSettings")
      [] impl = "VhdManager" -> vhd_wait_iter(job, "ResizeVirtualHardDisk")
      [] impl = "VirtualMachine" -> vm_wait_iter(job)

\* wait_for_job over the answers: the result it returns, NoResult while it
\* is still waiting after the last of them.
RECURSIVE wait_for_job(_, _)
wait_for_job(impl, polls) ==
    IF polls = <<>> THEN NoResult
    ELSE IF Head(polls).err THEN GatewayError("WmiQuery", "get_object")
    ELSE IF wait_iter(impl, Head(polls).doc).next = "return"
    THEN wait_iter(impl, Head(polls).doc).res
    ELSE wait_for_job(impl, Tail(polls))

handle_and_wait(impl, out, polls) ==
    IF handle(impl, out).next = "wait" THEN wait_for_job(impl, polls)
    ELSE handle(impl, out).res

\* The same output parameters and poll answers are given to each handler.
handle_job_result ==
    /\ op.name = "idle"
    /\ \E out \in OutParams : \E polls \in PollSequences(out.job) :
         /\ op' = [Idle EXCEPT !.name = "handle_job_result",
                               !.settings = [out |-> out, polls |-> polls]]
         /\ frame' = [NoFrame EXCEPT
                        !.outcomes = [i \in 1..3 |->
                                        handle_and_wait(Implementations[i], out, polls)]]
    /\ todo' = <<>>
    /\ hist' = NoHist
    /\ result' = Ok
    /\ UNCHANGED <<vm, gwEnabled, gwJob, gwRes, gwPending, last, peer, com>>

NextHandlers ==
    \/ handle_job_result
    \/ call_returns

SpecHandlers == InitSettings /\ [][NextHandlers]_vars

(***************************************************************************)
(* Entities built from the gateway's documents: from_wmi of each entity    *)
(* and the list operations.  A document gives each property as absent, of  *)
(* an unreadable type, or a value.                                         *)
(***************************************************************************)
\* A constructed value or the error that ended the construction.
Built(v) == [ok |-> TRUE, v |-> v, e |-> NoResult]

Failed(e) == [ok |-> FALSE, v |-> <<>>, e |-> e]

\* get_string_prop_required, get_path: the text, MissingRequired when the
\* property is absent, TypeConversion when it is no text.
get_string_prop_required(p, name) ==
    LET r == get_string_prop(p)
    IN  IF r.err THEN Failed(GatewayError("TypeConversion", "String"))
        ELSE IF ~r.some THEN Failed(GatewayError("MissingRequired", name))
        ELSE Built(r.v)

\* get_string_prop(..)?: an optional text, TypeConversion when it is no text.
get_string_optional(p) ==
    LET r == get_string_prop(p)
    IN  IF r.err THEN Failed(GatewayError("TypeConversion", "String"))
        ELSE Built([some |-> r.some, v |-> r.v])

\* VirtualMachine::from_wmi.  obj.settings is the answer to the query of
\* query_generation: the query fails, or finds no document, or one.
VirtualMachine_from_wmi(obj) ==
    LET name == get_string_prop_required(obj.ElementName, "ElementName")
        id == get_string_prop_required(obj.Name, "Name")
        enabled_state == get_u16(obj.EnabledState)
        path == get_string_prop_required(obj.path, "__PATH")
    IN  IF ~name.ok THEN name
        ELSE IF ~id.ok THEN id
        ELSE IF enabled_state.err THEN Failed(GatewayError("TypeConversion", "u16"))
        ELSE IF ~path.ok THEN path
        ELSE IF obj.settings.err THEN Failed(GatewayError("WmiQuery", "query_generation"))
        ELSE Built([name |-> name.v, id |-> id.v,
                    state |-> from_enabled_state(unwrap_or(enabled_state, 0)),
                    generation |-> query_generation(obj.settings.doc),
                    path |-> path.v])

\* Checkpoint::from_wmi.
Checkpoint_from_wmi(obj) ==
    LET name == get_string_prop_required(obj.ElementName, "ElementName")
        id == get_string_prop_required(obj.InstanceID, "InstanceID")
        notes == get_string_optional(obj.Notes)
        path == get_string_prop_required(obj.path, "__PATH")
    IN  IF ~name.ok THEN name
        ELSE IF ~id.ok THEN id
        ELSE IF ~notes.ok THEN notes
        ELSE IF ~path.ok THEN path
        ELSE Built([name |-> name.v, id |-> id.v, notes |-> notes.v, path |-> path.v])

\* VirtualSwitch::from_wmi.
VirtualSwitch_from_wmi(obj) ==
    LET name == get_string_prop_required(obj.ElementName, "ElementName")
        id == get_string_prop_required(obj.Name, "Name")
        path == get_string_prop_required(obj.path, "__PATH")
        notes == get_string_optional(obj.Notes)
    IN  IF ~name.ok THEN name
        ELSE IF ~id.ok THEN id
        ELSE IF ~path.ok THEN path
        ELSE IF ~notes.ok THEN notes
        ELSE Built([name |-> name.v, id |-> id.v, notes |-> notes.v, path |-> path.v])

\* NetworkAdapter::from_wmi: the display name defaults to the empty text.
NetworkAdapter_from_wmi(obj) ==
    LET instance_id == get_string_prop_required(obj.InstanceID, "InstanceID")
        name == get_string_optional(obj.ElementName)
        path == get_string_prop_required(obj.path, "__PATH")
        mac_address == get_string_optional(obj.Address)
    IN  IF ~instance_id.ok THEN instance_id
        ELSE IF ~name.ok THEN name
        ELSE IF ~path.ok THEN path
        ELSE IF ~mac_address.ok THEN mac_address
        ELSE Built([instance_id |-> instance_id.v,
                    name |-> IF name.v.some THEN name.v.v ELSE "",
                    mac_address |-> mac_address.v, path |-> path.v])

from_wmi(class, obj) ==
    CASE class = "vm" -> VirtualMachine_from_wmi(obj)
      [] class = "checkpoint" -> Checkpoint_from_wmi(obj)
      [] class = "switch" -> VirtualSwitch_from_wmi(obj)
      [] class = "adapter" -> NetworkAdapter_from_wmi(obj)

RECURSIVE collect_found(_)
\* The values built, those that failed left out.
collect_found(results) ==
    IF results = <<>> THEN Built(<<>>)
    ELSE LET rest == collect_found(Tail(results))
         IN  IF Head(results).ok THEN Built(<<Head(results).v>> \o rest.v) ELSE rest

RECURSIVE collect(_)
\* Iterator::collect into Result<Vec<_>>: every value, or the first error.
collect(results) ==
    IF results = <<>> THEN Built(<<>>)
    ELSE IF ~Head(results).ok THEN Head(results)
    ELSE LET rest == collect(Tail(results))
         IN  IF rest.ok THEN Built(<<Head(results).v>> \o rest.v) ELSE rest

\* A text property of a document, and its path.
TextProps(v) == {SNull, SBad, SVal(v)}

\* The answers to the query of query_generation.
SettingsAnswers ==
    {[err |-> TRUE, doc |-> NoDocument],
     [err |-> FALSE, doc |-> NoDocument],
     [err |-> FALSE, doc |-> Some([subtype |-> Text(to_subtype("Gen2"))])]}

\* The documents of a class: every combination of its properties.
Documents(class) ==
    CASE class = "vm" ->
            [ElementName : TextProps("TestVM"), Name : TextProps("guid"),
             EnabledState : {Null, Bad, Val(2)}, path : TextProps("path"),
             settings : SettingsAnswers]
      [] class = "checkpoint" ->
            [ElementName : TextProps("Snap1"), InstanceID : TextProps("guid"),
             Notes : TextProps("notes"), path : TextProps("path")]
      [] class = "switch" ->
            [ElementName : TextProps("External"), Name : TextProps("guid"),
             Notes : TextProps("notes"), path : TextProps("path")]
      [] class = "adapter" ->
            [InstanceID : TextProps("guid"), ElementName : TextProps("Adapter"),
             Address : TextProps("00155D000001"), path : TextProps("path")]

MaxDocuments == 2

\* The documents from_wmi builds an entity from.
WholeDocuments(class) == {obj \in Documents(class) : from_wmi(class, obj).ok}

\* The result sets of a query: up to MaxDocuments documents, one of them
\* any document of the class.
ResultSets(class) ==
    UNION {{[i \in 1..n |-> IF i = k THEN obj ELSE whole[i]] :
                k \in 1..n, obj \in Documents(class),
                whole \in [1..n -> WholeDocuments(class)]} :
           n \in 0..MaxDocuments}

\* A list operation: the query, from_wmi of every document, collect.
list(name, class) ==
    /\ op.name = "idle"
    /\ \E query_ok \in BOOLEAN : \E objects \in ResultSets(class) :
         LET built == collect([i \in DOMAIN objects |-> from_wmi(class, objects[i])])
         IN  /\ op' = [Idle EXCEPT !.name = name, !.arg = class,
                                   !.settings = [query_ok |-> query_ok,
                                                 objects |-> objects]]
             /\ todo' = <<>>
             /\ hist' = Touch(NoHist)
             /\ result' = IF ~query_ok THEN GatewayError("WmiQuery", name)
                          ELSE IF built.ok THEN Ok ELSE built.e
             /\ frame' = [NoFrame EXCEPT !.entities = IF query_ok /\ built.ok
                                                      THEN built.v ELSE <<>>]
    /\ UNCHANGED <<vm, gwEnabled, gwJob, gwRes, gwPending, last, peer, com>>

list_vms == list("list_vms", "vm")

list_checkpoints == list("list_checkpoints", "checkpoint")

list_switches == list("list_switches", "switch")

list_network_adapters == list("list_network_adapters", "adapter")

NextEntities ==
    \/ list_vms
    \/ list_checkpoints
    \/ list_switches
    \/ list_network_adapters
    \/ call_returns

SpecEntities == InitSettings /\ [][NextEntities]_vars

(***************************************************************************)
(* A VM is created: the gateway defines the system the request describes,  *)
(* switched off, and no other client acts on it before create_vm returns.  *)
(***************************************************************************)
NextCreate ==
    \/ create_vm
    \/ get_management_service
    \/ spawn_instance
    \/ get_method_params
    \/ hv_exec
    \/ hv_wait_for_job
    \/ resulting_path
    \/ get_created
    \/ get_vm_settings
    \/ setting_data
    \/ add_exec
    \/ refresh_step
    \/ job_progress
    \/ call_returns

SpecCreate == InitSettings /\ [][NextCreate]_vars

(***************************************************************************)
(* Network adapters of one VM: adapters are added and connected to a       *)
(* switch, in any order.                                                   *)
(***************************************************************************)
NextNet ==
    \/ add_network_adapter
    \/ connect_adapter_to_switch
    \/ get_vm_settings
    \/ get_management_service
    \/ switch_settings
    \/ spawn_instance
    \/ get_method_params
    \/ add_exec
    \/ hv_wait_for_job
    \/ list_adapters
    \/ job_progress
    \/ call_returns

SpecNet == InitSettings /\ [][NextNet]_vars

(***************************************************************************)
(* The job monitors at work: calls that end in one invocation, the job the *)
(* gateway queued for it, and the monitor's polls.  A monitor that is      *)
(* waiting polls again after its sleep; the job moves as the gateway       *)
(* pleases, or not at all.                                                 *)
(***************************************************************************)
NextMonitor ==
    \/ delete_checkpoint
    \/ vhd_resize
    \/ get_management_service
    \/ get_image_service
    \/ get_method_params
    \/ hv_exec
    \/ vhd_exec
    \/ hv_wait_for_job
    \/ vhd_wait_for_job
    \/ job_progress
    \/ call_returns

SpecMonitor ==
    /\ InitProv
    /\ [][NextMonitor]_vars
    /\ WF_vars(hv_wait_for_job)
    /\ WF_vars(vhd_wait_for_job)

(***************************************************************************)
(* Two callers of find_or_create_controller on the same VM.  The first is  *)
(* the caller above; the second takes the same call in its gateway round   *)
(* trips that read or change the resource list: the query and first loop,  *)
(* the AddResourceSettings request, the re-query and second loop.  The     *)
(* gateway answers the second caller's request with a status.  Each        *)
(* caller makes one call, at any time relative to the other's.             *)
(***************************************************************************)
peer_enter ==
    /\ peer.pc = "idle"
    /\ \E controller_type \in ControllerType, controller_number \in ControllerNumbers :
         peer' = [NoPeer EXCEPT !.pc = "scan", !.controller_type = controller_type,
                                !.controller_number = controller_number]
    /\ UNCHANGED <<vm, gwEnabled, gwJob, op, todo, result, hist, gwRes, gwPending, frame, last, com>>

peer_scan ==
    /\ peer.pc = "scan"
    /\ UNCHANGED <<vm, gwEnabled, gwJob, op, todo, result, hist, gwRes, gwPending, frame, last, com>>
    /\ \/ peer' = [peer EXCEPT !.pc = "done",
                                !.result = GatewayError("WmiQuery",
                                               "Msvm_ResourceAllocationSettingData")]
       \/ LET found == find_controller(gwRes, peer.controller_type, peer.controller_number)
              seen == [peer EXCEPT !.controllers = Len(gwRes)]
          IN  peer' = IF found # 0
                      THEN [seen EXCEPT !.pc = "done", !.controller_path = found,
                                        !.result = Ok]
                      ELSE IF peer.controller_type = "Scsi"
                      THEN [seen EXCEPT !.pc = "add"]
                      ELSE [seen EXCEPT !.pc = "done",
                                        !.result = OperationFailed("FindController", 0)]

\* add_scsi_controller that first looks for the controller again, in one
\* step with the request.
peer_add_if_absent ==
    /\ peer.pc = "add"
    /\ UNCHANGED <<vm, gwEnabled, gwJob, op, todo, result, hist, gwPending, frame, last, com>>
    /\ IF find_controller(gwRes, peer.controller_type, peer.controller_number) # 0
       THEN /\ peer' = [peer EXCEPT !.pc = "requery"]
            /\ UNCHANGED gwRes
       ELSE /\ Len(gwRes) < MaxResources
            /\ \E r \in NewResources("controller") :
                 /\ gwRes' = Append(gwRes, r)
                 /\ peer' = [peer EXCEPT !.pc = "requery", !.added = TRUE]

\* add_scsi_controller: the request is sent whatever the list holds by now.
peer_add ==
    /\ peer.pc = "add"
    /\ UNCHANGED <<vm, gwEnabled, gwJob, op, todo, result, hist, gwPending, frame, last, com>>
    /\ \/ /\ peer' = [peer EXCEPT !.pc = "done",
                                   !.result = GatewayError("WmiMethod",
                                                           "AddResourceSettings")]
          /\ UNCHANGED gwRes
       \/ \E out \in {o \in OutParams : o.rv \in {Val(0)} \cup {Val(c) : c \in FailureStatus}} :
            LET m == hv_handle_job_result(out, "AddResourceSettings")
            IN  IF m.next = "ok"
                THEN /\ Len(gwRes) < MaxResources
                     /\ \E r \in NewResources("controller") :
                          /\ gwRes' = Append(gwRes, r)
                          /\ peer' = [peer EXCEPT !.pc = "requery", !.added = TRUE]
                ELSE /\ peer' = [peer EXCEPT !.pc = "done", !.result = m.res]
                     /\ UNCHANGED gwRes

peer_requery ==
    /\ peer.pc = "requery"
    /\ UNCHANGED <<vm, gwEnabled, gwJob, op, todo, result, hist, gwRes, gwPending, frame, last, com>>
    /\ \/ peer' = [peer EXCEPT !.pc = "done",
                                !.result = GatewayError("WmiQuery",
                                               "Msvm_ResourceAllocationSettingData")]
       \/ LET found == requery_controller(gwRes, peer.controller_type)
          IN  peer' = IF found # 0
                      THEN [peer EXCEPT !.pc = "done", !.controller_path = found,
                                        !.result = Ok]
                      ELSE [peer EXCEPT !.pc = "done",
                                        !.result = OperationFailed("FindController", 0)]

\* Each caller makes one call.
NextRace ==
    \/ find_or_create_controller
    \/ get_vm_settings
    \/ foc_scan
    \/ spawn_instance
    \/ get_management_service
    \/ get_method_params
    \/ add_exec
    \/ hv_wait_for_job
    \/ foc_requery
    \/ job_progress
    \/ peer_enter
    \/ peer_scan
    \/ peer_add
    \/ peer_requery

SpecRace == InitProv /\ [][NextRace]_vars

(***************************************************************************)
(* A caller that follows the checkpoint scenario on a running VM: create   *)
(* a checkpoint, apply it at once, stop the VM, apply it again.  The VM    *)
(* changes state at the gateway only as the caller's requests make it.     *)
(***************************************************************************)
scenario_create ==
    /\ last.stage = 1
    /\ create_checkpoint

scenario_apply_running ==
    /\ last.stage = 2
    /\ apply_checkpoint
    /\ op'.arg = last.checkpoint

scenario_stop ==
    /\ last.stage = 3
    /\ stop

scenario_apply ==
    /\ last.stage = 4
    /\ apply_checkpoint
    /\ op'.arg = last.checkpoint

\* The guest finishes the shutdown that InitiateShutdown started.
guest_shutdown_completes ==
    /\ hist.graceful = "ok"
    /\ gwEnabled # Val(3)
    /\ gwEnabled' = Val(3)
    /\ UNCHANGED <<vm, gwJob, op, todo, result, hist, gwRes, gwPending, frame, last, peer, com>>

InitScenario ==
    /\ vm \in [name : VmNames, state : {"Running"}, generation : {"Gen2"}]
    /\ gwEnabled = Val(2)
    /\ gwJob = NoJob
    /\ op = Idle
    /\ todo = <<>>
    /\ result = NoResult
    /\ hist = NoHist
    /\ gwRes = <<>>
    /\ gwPending = NoRes
    /\ frame = NoFrame
    /\ last = [NoLast EXCEPT !.stage = 1]
    /\ peer = NoPeer
    /\ com = NoCom

NextScenario ==
    \/ scenario_create
    \/ scenario_apply_running
    \/ scenario_stop
    \/ scenario_apply
    \/ rsc_params
    \/ rsc_exec
    \/ vm_wait_for_job
    \/ gs_query
    \/ gs_params
    \/ gs_exec
    \/ refresh_step
    \/ get_management_service
    \/ get_method_params
    \/ spawn_instance
    \/ hv_exec
    \/ hv_wait_for_job
    \/ resulting_path
    \/ get_created
    \/ job_progress
    \/ guest_shutdown_completes
    \/ call_returns

SpecScenario == InitScenario /\ [][NextScenario]_vars

(***************************************************************************)
(* Properties of the lifecycle controller.                                 *)
(***************************************************************************)
Lifecycle == {"start", "stop", "pause", "resume", "save", "reset"}

\* The transition table: the states each operation is legal from.
LegalFrom(o) ==
    CASE o = "start" -> {"Off", "Suspended", "Paused"}
      [] o = "stop" -> {"Running", "Paused", "Suspended"}
      [] o = "pause" -> {"Running"}
      [] o = "resume" -> {"Paused"}
      [] o = "save" -> {"Running", "Paused"}
      [] o = "reset" -> {"Running"}

\* The step enters lifecycle operation o.
Entering(o) == op.name = "idle" /\ op'.name = o

\* C1: a lifecycle operation called on a handle whose cached state is outside
\* the operation's legal set returns at once an invalid-state error with the
\* handle's VM name, a state value that identifies the cached state among all
\* power states, and the operation's name, having made no gateway request.
C1_InvalidStateRefusal ==
    [][\A o \in Lifecycle :
          (Entering(o) /\ vm.state \notin LegalFrom(o)) =>
              /\ todo' = <<>>
              /\ result'.kind = "InvalidState"
              /\ result'.vm_name = vm.name
              /\ result'.operation = o
              /\ result'.current = to_error(vm.state)
              /\ \A s \in VmState : to_error(s) = result'.current => s = vm.state
              /\ ~hist'.touched
              /\ hist'.invokes = <<>>
              /\ vm' = vm]_vars

C1_Witness ==
    /\ pc = "done"
    /\ op.name = "pause"
    /\ vm = [name |-> OtherVM, state |-> "Saving", generation |-> "Gen2"]
    /\ result = InvalidState(OtherVM, <<"Other", 32773>>, "pause")
    /\ ~hist.touched

\* C2: over the 14 power states, can_start holds exactly for Off, Suspended
\* and Paused, can_stop exactly for Running, Paused and Suspended, can_pause
\* exactly for Running, can_save exactly for Running and Paused; resume is
\* admitted exactly from Paused and reset exactly from Running.
C2_TransitionTable ==
    [][/\ Cardinality(VmState) = 14
       /\ \A s \in VmState :
            /\ can_start(s) <=> s \in {"Off", "Suspended", "Paused"}
            /\ can_stop(s) <=> s \in {"Running", "Paused", "Suspended"}
            /\ can_pause(s) <=> s = "Running"
            /\ can_save(s) <=> s \in {"Running", "Paused"}
       /\ Entering("resume") =>
            ((todo' # <<>> /\ result'.kind = "none") <=> vm.state = "Paused")
       /\ Entering("reset") =>
            ((todo' # <<>> /\ result'.kind = "none") <=> vm.state = "Running")]_vars

C2_Witness ==
    /\ op.name = "resume"
    /\ pc = "rsc_params"
    /\ vm.state = "Paused"

Transitions == Lifecycle \cup {"apply_checkpoint"}

\* The power state a reported EnabledState denotes.
Reported(p) ==
    IF p.t = "val" /\ \E s \in VmState \ {"Unknown"} : VmStateCode(s) = p.v
    THEN CHOOSE s \in VmState \ {"Unknown"} : VmStateCode(s) = p.v
    ELSE "Unknown"

C3_QueuedPolledToCompletion ==
    (pc = "done" /\ result = Ok) =>
        \A i \in DOMAIN hist.invokes : hist.invokes[i].outcome # "queued"

Returned == hist.monitor \in {"ok", "failed", "error"}

TerminalStates == JobFailedStates \cup {JobCompleted}

\* C4 as stated: the monitor returns only on reading a terminal state,
\* success exactly for 7, a job failure with the job's code and description
\* exactly for 8..11, and no other state read ends the wait.
C4_MonitorTerminalOnly ==
    /\ Returned => hist.lastRead \in TerminalStates
    /\ hist.monitor = "ok" <=> (Returned /\ hist.lastRead = JobCompleted)
    /\ hist.monitor = "failed" <=> (Returned /\ hist.lastRead \in JobFailedStates)
    /\ hist.monitor = "polling" => hist.lastRead \notin TerminalStates

\* The monitor's document had an error field of an unreadable type.
UnreadableError(doc) == doc.ec.t = "bad" \/ doc.ed.t = "bad"

\* C4: the monitor returns when it reads a terminal job state, or when a
\* fetch of the job or a read of JobState, ErrorCode or ErrorDescription
\* fails, which it returns as that gateway error.  It returns success exactly
\* when the state it read is 7, and a job failure with the job's error code
\* and description exactly when the state is 8..11 and both fields were
\* readable; a non-terminal state it reads (running, unknown code, absent
\* value) never ends the wait and is never reported as a failure.
C4_MonitorReturns ==
    /\ hist.monitor = "ok" <=> (Returned /\ hist.lastRead = JobCompleted)
    /\ hist.monitor = "failed" <=>
          (Returned /\ hist.lastRead \in JobFailedStates /\ ~UnreadableError(hist.lastDoc))
    /\ hist.monitor = "failed" =>
          /\ pc = "done"
          /\ result.kind = "JobFailed"
          /\ result.code = (IF hist.lastDoc.ec.t = "val" THEN hist.lastDoc.ec.v ELSE 0)
          /\ result.desc = (IF hist.lastDoc.ed.t = "val" THEN hist.lastDoc.ed.v ELSE "")
    /\ hist.monitor = "error" =>
          /\ pc = "done"
          /\ result.kind \in {"WmiQuery", "TypeConversion"}
          /\ \/ hist.lastRead = -1
             \/ hist.lastRead \in JobFailedStates /\ UnreadableError(hist.lastDoc)
    /\ hist.monitor = "polling" => hist.lastRead \notin TerminalStates
    /\ (hist.lastRead \notin TerminalStates \cup {-1} /\ hist.monitor # "none") =>
          hist.monitor = "polling" /\ result.kind = "none"

C4_Witness ==
    /\ pc = "done"
    /\ hist.monitor = "failed"
    /\ hist.lastRead = 10
    /\ hist.lastDoc.ec = Null
    /\ result = JobFailed("MergeVirtualHardDisk", 0, "failed")

Requests(method) ==
    {i \in DOMAIN hist.invokes : hist.invokes[i].method = method}

OffRequests ==
    {i \in Requests("RequestStateChange") : hist.invokes[i].code = 3}

GracefulStop == op.name = "stop" /\ op.shutdown_type = "Graceful"

\* C8 as stated: stop(Graceful) issues no state-change request; without the
\* capability it fails; with it, it issues exactly one shutdown request.
C8_GracefulExactlyOne ==
    GracefulStop =>
        /\ Requests("RequestStateChange") = {}
        /\ (pc = "done" /\ hist.capability = "absent") => result.kind \notin {"Ok", "none"}
        /\ (pc = "done" /\ hist.capability = "found") =>
              Cardinality(Requests("InitiateShutdown")) = 1

\* C8: stop(Graceful) from an allowed state never issues a state-change
\* request.  When no shutdown capability is found it fails (operation
\* GracefulShutdown) having issued no request.  When the capability is found
\* it issues at most one in-guest shutdown request: exactly one, unless
\* reading the component's path or preparing the parameters failed, in
\* which case it returns that gateway error and issues none.
C8_GracefulNoFallback ==
    GracefulStop =>
        /\ Requests("RequestStateChange") = {}
        /\ hist.capability = "absent" =>
              /\ pc = "done"
              /\ result = OperationFailed("GracefulShutdown", 0)
              /\ hist.invokes = <<>>
        /\ hist.capability = "found" => Cardinality(Requests("InitiateShutdown")) <= 1
        /\ (pc = "done" /\ hist.capability = "found"
                /\ Requests("InitiateShutdown") = {}) =>
              result.kind \in {"MissingRequired", "WmiQuery", "WmiMethod"}

C8_Witness ==
    /\ GracefulStop
    /\ pc = "done"
    /\ hist.capability = "found"
    /\ Cardinality(Requests("InitiateShutdown")) = 1
    /\ result = Ok

ForcedStop == op.name = "stop" /\ op.shutdown_type = "GracefulWithForce"

\* C9 as stated: stop(GracefulWithForce) attempts the graceful shutdown
\* first; once that failed it issues exactly one state-change request to
\* Off, and none when it succeeded.
C9_ForceExactlyOne ==
    ForcedStop =>
        /\ Requests("RequestStateChange") # {} => hist.graceful = "failed"
        /\ hist.graceful = "ok" => Requests("RequestStateChange") = {}
        /\ (pc = "done" /\ hist.graceful = "failed") => Cardinality(OffRequests) = 1

\* C9: stop(GracefulWithForce) attempts the graceful shutdown first.  Once
\* that attempt failed (capability absent, gateway error, failure status) it
\* goes on to the forced state change and issues at most one state-change
\* request, to Off: exactly one, unless preparing that request failed with a
\* gateway error, which it returns.  When the attempt succeeded it issues no
\* state-change request.
C9_ForceAfterGraceful ==
    ForcedStop =>
        /\ Requests("RequestStateChange") # {} => hist.graceful = "failed"
        /\ hist.graceful = "ok" => Requests("RequestStateChange") = {}
        /\ hist.graceful = "failed" =>
              pc \in {"rsc_params", "rsc_exec", "vm_wait", "refresh", "done"}
        /\ Requests("RequestStateChange") = OffRequests
        /\ Cardinality(OffRequests) <= 1
        /\ (pc = "done" /\ hist.graceful = "failed" /\ OffRequests = {}) =>
              /\ result.kind \in {"WmiQuery", "WmiMethod"}
              /\ result.operation = "RequestStateChange"

C9_Witness ==
    /\ ForcedStop
    /\ pc = "done"
    /\ hist.capability = "absent"
    /\ hist.graceful = "failed"
    /\ Cardinality(OffRequests) = 1
    /\ result = Ok

\* The call was failed by the last failure status, with nothing after it.
FailedByStatus ==
    /\ pc = "done"
    /\ result = OperationFailed(hist.failMethod, hist.failCode)
    /\ ~hist.afterFail

\* C10 as stated: after any invocation answered with a status other than 0
\* and 4096 the calling operation is failed by that status.
C10_StatusAlwaysFails ==
    hist.failSeen => FailedByStatus

\* C10: after an invocation answered with a status other than 0 and 4096 the
\* calling operation has returned an operation-failed error with that status
\* and the invoked method's name and has taken no further step; except that
\* stop(GracefulWithForce) discards the failure status of the in-guest
\* shutdown request and goes on to the forced state change.
C10_StatusFails ==
    /\ (hist.failSeen /\ ~(ForcedStop /\ hist.failMethod = "InitiateShutdown")) =>
          FailedByStatus
    /\ (hist.failSeen /\ ForcedStop /\ hist.failMethod = "InitiateShutdown") =>
          hist.graceful = "failed"

C10_Witness ==
    /\ pc = "done"
    /\ op.name = "delete_checkpoint"
    /\ hist.failSeen
    /\ result = OperationFailed("DestroySnapshot", 32775)
    /\ Len(hist.invokes) = 1

(***************************************************************************)
(* Properties of resource provisioning.                                    *)
(***************************************************************************)
\* The current call is find-or-create for the pair of the call made just
\* before it, which succeeded.
SecondSameCall ==
    /\ op.name = "find_or_create_controller"
    /\ last.ok
    /\ last.controller_type = op.controller_type
    /\ last.controller_number = op.controller_number

\* C5: the second of two consecutive find-or-create calls for the same
\* controller type and number issues no add-resource request, and the two
\* calls together add at most one resource to the VM.
C5_FindOrCreateIdempotent ==
    SecondSameCall =>
        /\ Requests("AddResourceSettings") = {}
        /\ Len(gwRes) <= last.size0 + 1

AddRequests(kind) ==
    {i \in Requests("AddResourceSettings") : hist.invokes[i].ref = kind}

FailedOutcomes == {"sent", "error", "status", "failed"}

Attaching == op.name \in {"attach_vhd", "mount_iso"}

StorageAddReached ==
    /\ op.name = "mount_iso"
    /\ pc = "done"
    /\ result = Ok
    /\ hist.monitor = "ok"
    /\ AddRequests("storage") # {}
    /\ \E j \in AddRequests("drive") : hist.invokes[j].outcome = "ok"
    /\ gwRes[frame.drive_path].subtype = "Synthetic DVD Drive"

(***************************************************************************)
(* Properties of the requests a lifecycle operation issues.                *)
(***************************************************************************)
\* The requested-state code the spec gives for an operation's request.
RequestCode(o) ==
    CASE o = "start" -> 2
      [] o = "resume" -> 2
      [] o = "stop" -> 3
      [] o = "pause" -> 32768
      [] o = "save" -> 32769
      [] o = "reset" -> 11

PowerStateCodes == {2, 3, 32768, 32769}

\* The call is one that changes state by a single state-change request.
SingleRequestCall ==
    \/ op.name \in {"start", "pause", "resume", "save", "reset"}
    \/ op.name = "stop" /\ op.shutdown_type = "Force"

\* C11: every state-change request issued by start or resume carries
\* requested state 2, by stop 3, by pause 32768, by save 32769 and by reset
\* the distinct code 11, never one of the power-state codes; a successful
\* start, pause, resume, save, reset or forced stop has issued exactly one
\* such request and no other invocation.
C11_RequestCodes ==
    /\ Requests("RequestStateChange") # {} => op.name \in Lifecycle
    /\ \A i \in Requests("RequestStateChange") :
          /\ hist.invokes[i].code = RequestCode(op.name)
          /\ op.name = "reset" => hist.invokes[i].code \notin PowerStateCodes
    /\ (SingleRequestCall /\ pc = "done" /\ result = Ok) =>
          /\ Cardinality(Requests("RequestStateChange")) = 1
          /\ Len(hist.invokes) = 1

C11_Witness ==
    /\ op.name = "reset"
    /\ pc = "done"
    /\ result = Ok
    /\ Len(hist.invokes) = 1
    /\ hist.invokes[1].method = "RequestStateChange"
    /\ hist.invokes[1].code = 11
    /\ hist.monitor = "ok"

(***************************************************************************)
(* Properties of the checkpoint manager.                                   *)
(***************************************************************************)
Applying == op.name = "apply_checkpoint"

\* The apply call was refused at its precondition.
ApplyRefused ==
    /\ pc = "done"
    /\ result = InvalidState(vm.name, to_error(vm.state), "apply checkpoint")
    /\ \A s \in VmState : to_error(s) = result.current => s = vm.state
    /\ hist.invokes = <<>>
    /\ ~hist.touched

\* Every request of the apply call is a restore request for its checkpoint.
RestoreRequestsOnly ==
    \A i \in DOMAIN hist.invokes :
        /\ hist.invokes[i].method = "ApplySnapshot"
        /\ hist.invokes[i].ref = op.arg

\* C12 as stated: apply-checkpoint on a handle whose cached state is not Off
\* is refused with an invalid-state error and no request; with cached state
\* Off it issues exactly one restore request carrying the checkpoint's path.
C12_ApplyExactlyOne ==
    Applying =>
        /\ (vm.state # "Off" /\ ~hist.touched) => ApplyRefused
        /\ RestoreRequestsOnly
        /\ (pc = "done" /\ result.kind # "InvalidState") =>
              Cardinality(Requests("ApplySnapshot")) = 1

\* C12: apply-checkpoint on a handle whose cached state is not Off returns an
\* invalid-state error (the handle's VM name, that state, "apply checkpoint")
\* and makes no gateway call.  With cached state Off it is never refused so
\* and issues at most one request, a restore request carrying the
\* checkpoint's path: exactly one, unless finding the management service or
\* preparing the parameters failed, in which case it returns that gateway
\* error and issues none.
C12_ApplyGated ==
    Applying =>
        /\ (vm.state # "Off" /\ ~hist.touched) => ApplyRefused
        /\ result.kind = "InvalidState" => (vm.state # "Off" /\ ~hist.touched)
        /\ RestoreRequestsOnly
        /\ Cardinality(Requests("ApplySnapshot")) <= 1
        /\ pc \in {"hv_wait", "refresh"} => Cardinality(Requests("ApplySnapshot")) = 1
        /\ (pc = "done" /\ result = Ok) => Cardinality(Requests("ApplySnapshot")) = 1
        /\ (pc = "done" /\ result.kind # "InvalidState" /\ hist.invokes = <<>>) =>
              result.kind \in {"WmiQuery", "WmiMethod", "MissingRequired"}

C12_Witness ==
    /\ Applying
    /\ op.arg = "snap2"
    /\ pc = "done"
    /\ result = Ok
    /\ Len(hist.invokes) = 1
    /\ hist.invokes[1].method = "ApplySnapshot"
    /\ hist.invokes[1].ref = "snap2"

\* An apply call refused from a state that is not Off.
ApplyRefusedReached ==
    /\ Applying
    /\ vm.state = "Running"
    /\ result = InvalidState(vm.name, <<"Running", 0>>, "apply checkpoint")
    /\ pc = "done"

(***************************************************************************)
(* Properties of the checkpoint scenario.                                  *)
(***************************************************************************)
\* The scenario's second apply: the call made after stop returned success.
ApplyAfterStop == last.stage = 4 /\ op.name = "apply_checkpoint"

\* C13: in the scenario (checkpoint created on a running VM, apply refused
\* while running, stop returned success on the same handle) the apply made
\* next is not rejected with an invalid-state error, and when it returns
\* success the handle's state is the state the gateway reported for the
\* restored VM.
C13_ApplyAfterStopAccepted ==
    ApplyAfterStop =>
        /\ result.kind # "InvalidState"
        /\ (pc = "done" /\ result = Ok) => vm.state = Reported(hist.fetchedProp)

\* The first apply of the scenario, on the running VM, is refused.
ScenarioFirstApplyRefused ==
    (last.stage = 2 /\ op.name = "apply_checkpoint") =>
        /\ pc = "done"
        /\ result = InvalidState(vm.name, <<"Running", 0>>, "apply checkpoint")

\* The scenario as the spec tells it: the second apply succeeded.
ScenarioCompleted ==
    /\ ApplyAfterStop
    /\ pc = "done"
    /\ result = Ok
    /\ vm.state = "Suspended"

(***************************************************************************)
(* Validation before the gateway.                                          *)
(***************************************************************************)

\* The operations that validate their settings first.
ValidatedOps ==
    {"create_vm", "attach_vhd", "mount_iso", "add_network_adapter",
     "create_checkpoint", "create", "convert"}

\* The field validate refuses in the settings of call o, or Valid.
Refusal(o) ==
    CASE o.name = "create_vm" -> VmSettings_validate(o.settings)
      [] o.name = "attach_vhd" -> DiskAttachment_validate(o.settings)
      [] o.name = "mount_iso" -> IsoAttachment_validate(o.settings)
      [] o.name = "add_network_adapter" -> NetworkAdapterSettings_validate(o.settings)
      [] o.name = "create_checkpoint" -> CheckpointSettings_validate(o.settings)
      [] o.name \in {"create", "convert"} -> VhdSettings_validate(o.settings)
      [] OTHER -> Valid

\* The call in progress was given settings that validate refuses.
SettingsRefused == op.name \in ValidatedOps /\ Refusal(op) # Valid

\* C14: when create_vm, attach_vhd, mount_iso, add_network_adapter,
\* create_checkpoint, VhdManager::create or ::convert is given settings that
\* validate refuses, the call has returned the validation error for the
\* refused field and has made no gateway call: no query, fetch, spawn or
\* invocation.
C14_ValidationLocal ==
    SettingsRefused =>
        /\ result = GatewayError("Validation", Refusal(op))
        /\ pc = "done"
        /\ ~hist.touched
        /\ hist.invokes = <<>>

\* A checkpoint name of 101 characters was refused.
C14_Witness ==
    /\ SettingsRefused
    /\ op.name = "create_checkpoint"
    /\ Len(op.settings.name) = 101
    /\ result.kind = "Validation"

\* Accepted settings do reach the gateway.
AcceptedSettingsReachGateway ==
    /\ op.name \in ValidatedOps
    /\ Refusal(op) = Valid
    /\ hist.invokes # <<>>

(***************************************************************************)
(* The two-phase attach.                                                   *)
(***************************************************************************)

DriveSubtypes == {"Synthetic Disk Drive", "Synthetic DVD Drive"}

\* The drives the gateway added to the VM during the call in progress.
DrivesAddedByCall ==
    {i \in (frame.size0 + 1)..Len(gwRes) : gwRes[i].subtype \in DriveSubtypes}

\* The call returned because its request to add the storage allocation
\* failed: the invocation itself, a failure status, or a failed job.
StorageAddFailed ==
    /\ Attaching
    /\ pc = "done"
    /\ hist.invokes # <<>>
    /\ hist.invokes[Len(hist.invokes)].ref = "storage"
    /\ hist.invokes[Len(hist.invokes)].outcome \in {"sent", "status", "failed"}

\* C15: when the request that adds the storage allocation fails after the
\* drive was added, attach_vhd and mount_iso return the error, every request
\* they issued was an AddResourceSettings (none removes or modifies), the
\* drive added by the call is in the VM's resource list with no storage
\* allocation parented to it, and no step ever takes a resource back out of
\* the list.
C15_NoRollback ==
    /\ [](StorageAddFailed /\ DrivesAddedByCall # {} =>
            /\ result.kind \in {"WmiMethod", "OperationFailed", "JobFailed"}
            /\ \A k \in DOMAIN hist.invokes :
                 hist.invokes[k].method = "AddResourceSettings"
            /\ \A d \in DrivesAddedByCall :
                 /\ gwRes[d].parent = frame.controller_path
                 /\ \A i \in DOMAIN gwRes :
                      gwRes[i].subtype = "Virtual Hard Disk" => gwRes[i].parent # d)
    /\ [][/\ Len(gwRes') >= Len(gwRes)
          /\ \A i \in DOMAIN gwRes : gwRes'[i] = gwRes[i]]_vars

\* The storage request of an attach was refused with a failure status after
\* the call had added its drive.
C15_Witness ==
    /\ StorageAddFailed
    /\ DrivesAddedByCall # {}
    /\ hist.invokes[Len(hist.invokes)].outcome = "status"
    /\ result.kind = "OperationFailed"

\* attach_vhd to controller 0, location 0 returned Ok.
AttachSucceeded ==
    /\ op.name = "attach_vhd"
    /\ op.controller_number = 0
    /\ op.controller_location = 0
    /\ pc = "done"
    /\ result = Ok

\* The disk drives of the VM under the controller the call resolved, at
\* location 0.
DrivesAtAddress ==
    {i \in DOMAIN gwRes :
        /\ gwRes[i].subtype = "Synthetic Disk Drive"
        /\ gwRes[i].parent = frame.controller_path
        /\ gwRes[i].location = Val(0)}

\* The storage allocations the gateway added during the call in progress.
StorageAddedByCall ==
    {i \in (frame.size0 + 1)..Len(gwRes) : gwRes[i].subtype = "Virtual Hard Disk"}

\* C16: after attach_vhd to controller 0, location 0 returned Ok, the VM's
\* resource list holds exactly one disk drive under that controller at
\* location 0, and the call added a storage allocation that is parented to
\* that drive and refers to the requested media path.
C16_AttachPostcondition ==
    AttachSucceeded =>
        /\ Cardinality(DrivesAtAddress) = 1
        /\ StorageAddedByCall # {}
        /\ \A i \in StorageAddedByCall :
             /\ gwRes[i].parent \in DrivesAtAddress
             /\ gwRes[i].host_resource = op.settings.path

\* The postcondition where the address was free when the call began and
\* the gateway carried out both add requests before the call returned.
AttachPostconditionOnFreeAddress ==
    (/\ AttachSucceeded
     /\ DrivesAddedByCall # {}
     /\ StorageAddedByCall # {}
     /\ \A i \in DrivesAtAddress : i > frame.size0)
        => /\ Cardinality(DrivesAtAddress) = 1
           /\ \A i \in StorageAddedByCall :
                /\ gwRes[i].parent \in DrivesAtAddress
                /\ gwRes[i].host_resource = op.settings.path

(***************************************************************************)
(* Two callers in find_or_create_controller.                               *)
(***************************************************************************)

ScsiControllers == {i \in DOMAIN gwRes : gwRes[i].subtype = "Synthetic SCSI Controller"}

\* C17: find_or_create_controller does not look for the controller and add
\* it in one step: a caller whose scan found no matching controller goes on
\* to its re-query only through an AddResourceSettings request that adds a
\* controller, whatever another caller has added to the list since the scan.
C17_ScanThenCreate ==
    [][(peer.pc = "add" /\ peer'.pc = "requery") =>
          /\ gwRes' # gwRes
          /\ SubSeq(gwRes', 1, Len(gwRes)) = gwRes
          /\ gwRes'[Len(gwRes')].subtype = "Synthetic SCSI Controller"]_vars

\* Both callers asked for SCSI controller 0 of a VM without one, neither
\* scan read a list with an SCSI controller in it, both calls returned a
\* controller, and the VM now has two SCSI controllers.
C17_Witness ==
    /\ op.name = "find_or_create_controller"
    /\ op.controller_type = "Scsi" /\ op.controller_number = 0
    /\ peer.controller_type = "Scsi" /\ peer.controller_number = 0
    /\ pc = "done" /\ result = Ok
    /\ peer.pc = "done" /\ peer.result = Ok
    /\ frame.controllers = frame.size0
    /\ peer.controllers = frame.size0
    /\ \A i \in ScsiControllers : i > frame.size0
    /\ Cardinality(ScsiControllers) = 2

(***************************************************************************)
(* Termination of the job monitors.                                        *)
(***************************************************************************)

\* HyperV::wait_for_job or VhdManager::wait_for_job is in its loop.
Monitoring == pc \in {"hv_wait", "vhd_wait"}

\* The job document the monitor in its loop fetches.
PolledJob == JobAt(Head(todo).job_path)

\* The monitor left its loop in this step.
MonitorReturns == Monitoring /\ ~Monitoring'

\* C18 as stated, second half: while the job is in no terminal state the
\* monitor does not return.
C18_ReturnsOnlyOnTerminal ==
    [][MonitorReturns => IsTerminalProp(PolledJob.state)]_vars

\* C18: once the polled job is in a terminal state (7, 8, 9, 10 or 11) the
\* monitor returns; and the monitor returns only on a job in a terminal
\* state or with the error of a fetch that failed or of a job property it
\* could not read: there is no timeout and no cancellation, so on a job that
\* never reaches a terminal state, with every fetch and read succeeding, it
\* never returns.
C18_MonitorTermination ==
    /\ (Monitoring /\ IsTerminalProp(PolledJob.state)) ~> ~Monitoring
    /\ [][MonitorReturns =>
            \/ IsTerminalProp(PolledJob.state)
            \/ result'.kind \in {"WmiQuery", "TypeConversion"}]_vars

\* A monitor that polled a running job has returned success after the job
\* completed.
C18_Witness ==
    /\ op.name \in {"delete_checkpoint", "resize"}
    /\ pc = "done"
    /\ result = Ok
    /\ hist.monitor = "ok"
    /\ hist.lastRead = JobCompleted
    /\ gwJob.state = Val(JobCompleted)

\* A monitor is polling a job that is in no terminal state.
MonitorWaiting ==
    /\ Monitoring
    /\ hist.monitor = "polling"
    /\ hist.lastRead = 4
    /\ ~IsTerminalProp(PolledJob.state)

(***************************************************************************)
(* Creating and deleting checkpoints.                                      *)
(***************************************************************************)

\* create_checkpoint returned after its CreateSnapshot request had
\* completed: answered with status 0, or queued and its job read Completed.
CreatedThenReturned ==
    /\ op.name = "create_checkpoint"
    /\ pc = "done"
    /\ hist.invokes # <<>>
    /\ hist.invokes[Len(hist.invokes)].method = "CreateSnapshot"
    /\ hist.invokes[Len(hist.invokes)].outcome = "ok"

\* C19: whenever the CreateSnapshot request completed, at once with status
\* 0 or as a queued job that reached Completed, create_checkpoint returns
\* the checkpoint created and no error.
C19_CreatedIsReturned ==
    CreatedThenReturned => result = Ok /\ hist.resulting \in CheckpointPaths

CheckpointOps == {"create_checkpoint", "delete_checkpoint", "apply_checkpoint"}

\* The invocation an operation makes.
RequestOf(o) ==
    CASE o = "create_checkpoint" -> "CreateSnapshot"
      [] o = "delete_checkpoint" -> "DestroySnapshot"
      [] o = "apply_checkpoint" -> "ApplySnapshot"

\* The steps entered lead to the operation's request.
LeadsToRequest(steps, o) ==
    \E i \in DOMAIN steps : steps[i].s = "hv_exec" /\ steps[i].m = RequestOf(o)

\* C20: create_checkpoint and delete_checkpoint do not look at the cached
\* power state: whatever it is, they set out for their CreateSnapshot or
\* DestroySnapshot request (create_checkpoint unless validate refuses the
\* settings) and they never return an invalid-state error; apply_checkpoint
\* is refused with an invalid-state error in every state but Off.
C20_OnlyApplyGated ==
    /\ [](op.name \in {"create_checkpoint", "delete_checkpoint"}
            => result.kind # "InvalidState")
    /\ [][/\ Entering("delete_checkpoint") => LeadsToRequest(todo', "delete_checkpoint")
          /\ Entering("create_checkpoint") =>
                \/ LeadsToRequest(todo', "create_checkpoint")
                \/ result'.kind = "Validation" /\ Refusal(op') # Valid
          /\ Entering("apply_checkpoint") =>
                IF vm.state = "Off"
                THEN LeadsToRequest(todo', "apply_checkpoint")
                ELSE todo' = <<>> /\ result'.kind = "InvalidState"]_vars

\* delete_checkpoint on a handle that says Running has sent its request.
C20_Witness ==
    /\ op.name = "delete_checkpoint"
    /\ vm.state = "Running"
    /\ hist.invokes # <<>>
    /\ hist.invokes[1].method = "DestroySnapshot"

(***************************************************************************)
(* C21: adapters and their connections.                                    *)
(***************************************************************************)
\* The resources the gateway added to the VM during the call in progress.
AddedByCall == (frame.size0 + 1)..Len(gwRes)

\* The call in progress issued only requests that add a resource of this
\* kind, and at most one; one when it returned Ok.
OnlyAdds(kind) ==
    /\ \A k \in DOMAIN hist.invokes :
         /\ hist.invokes[k].method = "AddResourceSettings"
         /\ hist.invokes[k].ref = kind
    /\ Len(hist.invokes) <= 1
    /\ result = Ok => Len(hist.invokes) = 1

AddingAdapter == op.name = "add_network_adapter"

Connecting == op.name = "connect_adapter_to_switch"

\* connect_adapter_to_switch has its answer about the switch's settings.
SwitchSettingsAnswered == Connecting /\ At("switch_settings") /\ ~At("switch_settings")'

AdapterAddedDisconnected ==
    /\ AddingAdapter
    /\ op.settings.switch_name.some
    /\ result = Ok
    /\ Cardinality(AddedByCall) = 1
    /\ \A i \in DOMAIN gwRes : gwRes[i].subtype # "Ethernet Connection"

\* connect_adapter_to_switch found no settings document for the switch.
SwitchNotFoundReturned == Connecting /\ result.kind = "SwitchNotFound"

(***************************************************************************)
(* C22: the handle create_vm returns.                                      *)
(***************************************************************************)
CreateReturned == op.name = "create_vm" /\ pc = "done" /\ result = Ok

\* C22: when create_vm returns Ok its settings were valid and the handle
\* it returns has the name and the generation of the settings and is Off.
C22_CreatedHandle ==
    CreateReturned =>
        /\ VmSettings_validate(op.settings) = Valid
        /\ vm.name = op.settings.name
        /\ vm.generation = op.settings.generation
        /\ vm.state = "Off"

\* The VM of the scenario was created: generation 2, Off.
C22_Witness ==
    /\ CreateReturned
    /\ op.settings = VmSettingsScenario
    /\ vm = [name |-> TestVM, state |-> "Off", generation |-> "Gen2"]
    /\ hist.fetched

\* A generation 1 VM was created.
Gen1Created == CreateReturned /\ op.settings.generation = "Gen1" /\ vm.generation = "Gen1"

(***************************************************************************)
(* C23: entities are built whole or not at all.                            *)
(***************************************************************************)
ListOps == {"list_vms", "list_checkpoints", "list_switches", "list_network_adapters"}

\* A list operation returned.
Listed == op.name \in ListOps /\ pc = "done"

Absent(p) == p.t = "null"

\* Display name, identifier, power state and object path of each class.
NamedFields(class) ==
    CASE class = "vm" -> {"ElementName", "Name", "EnabledState", "path"}
      [] class = "checkpoint" -> {"ElementName", "InstanceID", "path"}
      [] class = "switch" -> {"ElementName", "Name", "path"}
      [] class = "adapter" -> {"ElementName", "InstanceID", "path"}

\* The properties from_wmi reads as required.
RequiredFields(class) ==
    CASE class = "vm" -> {"ElementName", "Name", "path"}
      [] class = "checkpoint" -> {"ElementName", "InstanceID", "path"}
      [] class = "switch" -> {"ElementName", "Name", "path"}
      [] class = "adapter" -> {"InstanceID", "path"}

\* Some document of the result set lacks one of these properties.
SomeAbsent(fields) ==
    \E i \in DOMAIN op.settings.objects :
        \E f \in fields : Absent(op.settings.objects[i][f])

ListFailedOnSecond ==
    /\ Listed
    /\ result.kind = "MissingRequired"
    /\ Len(op.settings.objects) = 2
    /\ from_wmi(op.arg, op.settings.objects[1]).ok
    /\ frame.entities = <<>>

\* An adapter was built from a document without display name.
AdapterWithoutName ==
    /\ Listed
    /\ op.name = "list_network_adapters"
    /\ result = Ok
    /\ \E i \in DOMAIN frame.entities :
         Absent(op.settings.objects[i].ElementName) /\ frame.entities[i].name = ""

(***************************************************************************)
(* C24: no retries.                                                        *)
(***************************************************************************)
\* The invocations of the call in progress that the gateway failed: by a
\* failure status, or by a job that ended in a failed state.
FailedInvokes ==
    {k \in DOMAIN hist.invokes : hist.invokes[k].outcome \in {"status", "failed"}}

\* The call returned the error of its invocation k, its last.
ErrorReturned(k) ==
    /\ pc = "done"
    /\ k = Len(hist.invokes)
    /\ IF hist.invokes[k].outcome = "status"
       THEN result = OperationFailed(hist.failMethod, hist.failCode)
       ELSE result.kind = "JobFailed"

\* C24 as stated: once the gateway failed an invocation, the call has
\* returned that error.
C24_FailureReturned == \A k \in FailedInvokes : ErrorReturned(k)

\* C24: a call never invokes again a method the gateway failed, by status
\* or by job; and once the gateway failed an invocation the call has
\* returned that error, having invoked nothing after it -- except in
\* stop(GracefulWithForce), where the failure of InitiateShutdown is
\* followed by the forced RequestStateChange, and by nothing else.
C24_NoRetry ==
    \A k \in FailedInvokes :
        /\ \A j \in DOMAIN hist.invokes :
             j > k => hist.invokes[j].method # hist.invokes[k].method
        /\ IF ForcedStop /\ hist.invokes[k].method = "InitiateShutdown"
           THEN /\ hist.graceful = "failed"
                /\ \A j \in DOMAIN hist.invokes :
                     j > k => /\ hist.invokes[j].method = "RequestStateChange"
                              /\ hist.invokes[j].code = 3
                              /\ j = k + 1
           ELSE ErrorReturned(k)

\* A delete_checkpoint call ended by the failed job of its request.
C24_Witness ==
    /\ op.name = "delete_checkpoint"
    /\ pc = "done"
    /\ Len(hist.invokes) = 1
    /\ hist.invokes[1].outcome = "failed"
    /\ result.kind = "JobFailed"

\* stop(GracefulWithForce) went on after the failed in-guest shutdown.
ForcedAfterFailedShutdown ==
    /\ ForcedStop
    /\ pc = "done"
    /\ result = Ok
    /\ 1 \in FailedInvokes
    /\ Len(hist.invokes) = 2

(***************************************************************************)
(* C25: the transport is initialized once per thread.                      *)
(***************************************************************************)
\* Thread t is past init_com in a call of connect_to, or has a connection.
UsesTransport(t) ==
    \/ com.thread[t].pc \in {"locator", "connect_server", "proxy_blanket"}
    \/ com.thread[t].connections > 0

\* C25: on every thread the transport is initialized at most once, and it
\* has been initialized on the thread whenever the thread creates or has a
\* connection; a thread reads and writes no cell of COM_INITIALIZED but its
\* own, and a cell changes only in init_com of its own thread.
C25_InitOncePerThread ==
    /\ [](\A t \in Threads :
            /\ com.thread[t].initialized <= 1
            /\ UsesTransport(t) => com.thread[t].initialized = 1
            /\ com.thread[t].cells \subseteq {t}
            /\ com.COM_INITIALIZED[t] <=> com.thread[t].initialized = 1)
    /\ [][\A t \in Threads :
            com.COM_INITIALIZED'[t] # com.COM_INITIALIZED[t] =>
                /\ com.thread[t].pc = "init_com"
                /\ com.thread'[t].pc = "locator"
                /\ \A u \in Threads \ {t} : com.thread'[u] = com.thread[u]]_vars

\* Two threads each made two calls of connect_to and have two connections;
\* each was initialized once.
C25_Witness ==
    \A t \in Threads :
        /\ com.thread[t].calls = MaxConnects
        /\ com.thread[t].connections = 2
        /\ com.thread[t].initialized = 1

(***************************************************************************)
(* C26: enumerations and their numeric codes.                              *)
(***************************************************************************)
\* The value an enumeration's from_value gives for a code it does not define.
Fallback(enum) ==
    CASE enum = "VmState" -> "Unknown"
      [] enum = "CheckpointType" -> "Production"
      [] enum = "AutomaticStartAction" -> "Nothing"
      [] enum = "AutomaticStopAction" -> "Save"
      [] enum = "VhdType" -> "Dynamic"

DefinedCodes(enum) == {to_value(enum, v) : v \in Values(enum)}

\* C26: a value of VmState, CheckpointType, AutomaticStartAction,
\* AutomaticStopAction or VhdType converted to its code and back is the same
\* value, and no other value of the enumeration has that code; a code that
\* no value of the enumeration has converts to the enumeration's fallback
\* (Unknown for VmState), and every code converts to a value.
C26_CodeRoundTrip ==
    /\ op.name = "to_value" =>
         /\ frame.value = op.settings.value
         /\ \A other \in Values(op.arg) \ {op.settings.value} :
              to_value(op.arg, other) # frame.code
    /\ op.name = "from_value" =>
         /\ frame.value \in Values(op.arg)
         /\ op.settings.code \notin DefinedCodes(op.arg) =>
              frame.value = Fallback(op.arg)

\* ProductionOnly was converted to 2 and back.
C26_Witness ==
    /\ op.name = "to_value"
    /\ op.arg = "CheckpointType"
    /\ op.settings.value = "ProductionOnly"
    /\ frame.code = 2
    /\ frame.value = "ProductionOnly"

\* The code 32772, which lies between the codes of Snapshotting and Saving,
\* was converted to Unknown.
UndefinedCodeConverted ==
    /\ op.name = "from_value"
    /\ op.arg = "VmState"
    /\ op.settings.code = 32772
    /\ frame.value = "Unknown"

(***************************************************************************)
(* C27: validation of VM settings.                                         *)
(***************************************************************************)
ValidatingVm == op.name = "VmSettings::validate"

\* What validation of VM settings refuses, the name apart.
VmSettingsRefused(s) ==
    \/ s.memory_mb < 32 \/ s.memory_mb > 12582912
    \/ s.processor_count < 1 \/ s.processor_count > 240
    \/ /\ s.dynamic_memory
       /\ \/ s.dynamic_memory_min_mb.some /\ s.dynamic_memory_min_mb.v < 32
          \/ s.dynamic_memory_min_mb.some /\ s.dynamic_memory_min_mb.v > s.memory_mb
          \/ s.dynamic_memory_max_mb.some /\ s.dynamic_memory_max_mb.v < s.memory_mb
          \/ /\ s.dynamic_memory_min_mb.some /\ s.dynamic_memory_max_mb.some
             /\ s.dynamic_memory_min_mb.v > s.dynamic_memory_max_mb.v
          \/ s.memory_buffer_percentage.some /\ s.memory_buffer_percentage.v > 100
    \/ s.generation = "Gen1" /\ s.secure_boot

\* C27: validate refuses VM settings (with an accepted name) exactly when
\* the memory is outside 32..12582912, the processor count outside 1..240,
\* dynamic memory is enabled with a minimum under 32 or over the startup
\* memory, a maximum under the startup memory, a minimum over the maximum or
\* a buffer over 100, or secure boot is asked of generation 1; so the limits
\* 32, 12582912, 1 and 240 are accepted, and with dynamic memory disabled
\* minimum, maximum and buffer do not matter.
C27_VmSettingsValidation ==
    ValidatingVm =>
        /\ result.kind \in {"Ok", "Validation"}
        /\ result.kind = "Validation" <=> VmSettingsRefused(op.settings)
        /\ ~op.settings.dynamic_memory =>
             (result = Ok <=>
                 /\ op.settings.memory_mb \in 32..12582912
                 /\ op.settings.processor_count \in 1..240
                 /\ ~(op.settings.generation = "Gen1" /\ op.settings.secure_boot))

\* The least memory with the greatest processor count is accepted, with
\* dynamic memory disabled and a minimum, maximum and buffer that would be
\* refused were it enabled.
C27_Witness ==
    /\ ValidatingVm
    /\ op.settings.memory_mb = 32
    /\ op.settings.processor_count = 240
    /\ ~op.settings.dynamic_memory
    /\ op.settings.dynamic_memory_min_mb = Some(4097)
    /\ op.settings.dynamic_memory_max_mb = Some(31)
    /\ op.settings.memory_buffer_percentage = Some(101)
    /\ result = Ok

\* The greatest memory with one processor is accepted; a minimum over the
\* maximum is refused.
GreatestMemoryAccepted ==
    /\ ValidatingVm
    /\ op.settings.memory_mb = 12582912
    /\ op.settings.processor_count = 1
    /\ op.settings.dynamic_memory
    /\ result = Ok

(***************************************************************************)
(* C28: validation of virtual disk settings.                               *)
(***************************************************************************)
ValidatingVhd == op.name = "VhdSettings::validate"

\* The characters of a path after its last dot, none if it has no dot.
Extension(path) ==
    LET dots == {i \in 1..Len(path) : path[i] = "."}
    IN  IF dots = {} THEN <<>>
        ELSE SubSeq(path, (CHOOSE i \in dots : \A j \in dots : j <= i) + 1, Len(path))

FormatExtension(format) ==
    IF format = "Vhd" THEN <<"v", "h", "d">> ELSE <<"v", "h", "d", "x">>

\* The greatest size of a disk of the format: 2 TB and 64 TB, in MiB.
FormatCap(format) == IF format = "Vhd" THEN 2097152 ELSE 67108864

\* What validation of virtual disk settings refuses.
VhdSettingsRefused(s) ==
    \/ to_lowercase(Extension(s.path)) # FormatExtension(s.format)
    \/ s.size > FormatCap(s.format)
    \/ s.size = 0 /\ s.disk_type # "Differencing"
    \/ s.disk_type = "Differencing" /\ ~s.parent_path.some
    \/ s.logical_sector_size.some /\ s.logical_sector_size.v \notin {512, 4096}
    \/ s.physical_sector_size.some /\ s.physical_sector_size.v \notin {512, 4096}

\* C28: validate refuses virtual disk settings exactly when the extension of
\* the path is not that of the format (vhd, vhdx, in either case), the size
\* is over the cap of the format (2 TB, 64 TB), the size is 0 and the disk is
\* not differencing, the disk is differencing and has no parent path, or a
\* logical or physical sector size is given that is neither 512 nor 4096; so
\* a size equal to the cap is accepted.
C28_VhdSettingsValidation ==
    ValidatingVhd =>
        /\ result.kind \in {"Ok", "Validation"}
        /\ result.kind = "Validation" <=> VhdSettingsRefused(op.settings)

\* A fixed VHD of 2 TB with sector sizes 512 and 4096 is accepted.
C28_Witness ==
    /\ ValidatingVhd
    /\ op.settings.format = "Vhd"
    /\ op.settings.path = <<"D", ".", "V", "H", "D">>
    /\ op.settings.disk_type = "Fixed"
    /\ op.settings.size = 2097152
    /\ op.settings.logical_sector_size = Some(512)
    /\ op.settings.physical_sector_size = Some(4096)
    /\ result = Ok

\* A dynamic VHDX one MiB over 64 TB is refused for its size.
VhdxOverCapRefused ==
    /\ ValidatingVhd
    /\ op.settings.format = "Vhdx"
    /\ op.settings.path = <<"d", ".", "v", "h", "d", "x">>
    /\ op.settings.size = 67108865
    /\ result = GatewayError("Validation", "size_bytes")

(***************************************************************************)
(* C29: validation of switch settings.                                     *)
(***************************************************************************)
ValidatingSwitch == op.name = "VirtualSwitchSettings::validate"

\* What validation of switch settings refuses, the name apart.
SwitchSettingsRefused(s) ==
    \/ s.switch_type = "External" /\ ~s.external_adapter_id.some
    \/ s.switch_type = "Private" /\ (s.external_adapter_id.some \/ s.allow_management_os)
    \/ /\ s.default_flow_min_bandwidth_weight.some
       /\ s.default_flow_min_bandwidth_weight.v \notin 1..100
    \/ /\ s.bandwidth_reservation_mode = "Weight"
       /\ ~s.default_flow_min_bandwidth_weight.some
    \/ /\ s.bandwidth_reservation_mode = "Absolute"
       /\ ~s.default_flow_min_bandwidth_mbps.some
    \/ (s.enable_iov \/ s.enable_packet_direct) /\ s.switch_type # "External"

\* C29: validate refuses switch settings (with an accepted name) exactly
\* when the switch is external and names no adapter, is private and names an
\* adapter or allows the management OS, a weight is given that is not in
\* 1..100, the mode is Weight and no weight is given, the mode is Absolute
\* and no absolute bandwidth is given, or IOV or packet direct is enabled on
\* a switch that is not external.
C29_SwitchSettingsValidation ==
    ValidatingSwitch =>
        /\ result.kind \in {"Ok", "Validation"}
        /\ result.kind = "Validation" <=> SwitchSettingsRefused(op.settings)

\* An internal switch with a weight of 0 and no bandwidth mode is refused
\* for the weight.
C29_Witness ==
    /\ ValidatingSwitch
    /\ op.settings.switch_type = "Internal"
    /\ op.settings.bandwidth_reservation_mode = "None"
    /\ op.settings.default_flow_min_bandwidth_weight = Some(0)
    /\ ~op.settings.enable_iov
    /\ ~op.settings.enable_packet_direct
    /\ result = GatewayError("Validation", "default_flow_min_bandwidth_weight")

\* An external switch with an adapter, IOV, packet direct and a weight of
\* 100 in weight mode is accepted.
ExternalSwitchAccepted ==
    /\ ValidatingSwitch
    /\ op.settings.switch_type = "External"
    /\ op.settings.enable_iov
    /\ op.settings.enable_packet_direct
    /\ op.settings.bandwidth_reservation_mode = "Weight"
    /\ op.settings.default_flow_min_bandwidth_weight = Some(100)
    /\ result = Ok

(***************************************************************************)
(* C30: the controller find_or_create_controller returns.                  *)
(***************************************************************************)
\* find_or_create_controller has returned a controller to the operation.
ControllerReturned ==
    /\ op.name \in {"find_or_create_controller", "attach_vhd", "mount_iso"}
    /\ frame.controller_path # 0

\* The returned controller is of the requested type.
ControllerOfRequestedType ==
    ControllerReturned =>
        Contains(gwRes[frame.controller_path].subtype,
                 resource_subtype(op.controller_type))

\* C30: the controller find_or_create_controller returns is of the requested
\* type and its address is the requested controller number, whether it was
\* found or created by the call.
C30_ControllerAsRequested ==
    ControllerReturned =>
        /\ Contains(gwRes[frame.controller_path].subtype,
                    resource_subtype(op.controller_type))
        /\ gwRes[frame.controller_path].address = SVal(Numeral(op.controller_number))

\* SCSI controller 1 was asked for on a VM whose SCSI controller 0 exists;
\* the call added a controller that the gateway numbered 1, and returned
\* controller 0.
OtherControllerReturned ==
    /\ op.name = "find_or_create_controller"
    /\ op.controller_type = "Scsi"
    /\ op.controller_number = 1
    /\ todo = <<>>
    /\ result = Ok
    /\ frame.controller_path # 0
    /\ Len(gwRes) = frame.controllers + 1
    /\ gwRes[Len(gwRes)].address = SVal("1")
    /\ gwRes[frame.controller_path].address = SVal("0")

(***************************************************************************)
(* C31: queued power requests.                                             *)
(***************************************************************************)
\* An in-guest shutdown request answered 4096 was returned as a failure.
QueuedShutdownReportedFailed ==
    /\ pc = "done"
    /\ op.name = "stop"
    /\ op.shutdown_type = "Graceful"
    /\ result = OperationFailed("InitiateShutdown", Queued)
    /\ hist.invokes[Len(hist.invokes)].method = "InitiateShutdown"
    /\ hist.invokes[Len(hist.invokes)].outcome = "queued"

\* C31: when a power operation has returned, each of its requests
\* (RequestStateChange, InitiateShutdown) that was answered 4096 has had its
\* job polled to a terminal state, or the poll failed at the gateway, and the
\* operation does not return the status 4096 as an operation failure.
C31_QueuedPowerRequestPolled ==
    (pc = "done" /\ op.name \in Lifecycle) =>
        /\ \A i \in DOMAIN hist.invokes : hist.invokes[i].outcome # "queued"
        /\ ~(result.kind = "OperationFailed" /\ result.code = Queued)

(***************************************************************************)
(* C32: the three handlers of status and job.                              *)
(***************************************************************************)
Handling == op.name = "handle_job_result"

\* An outcome without the operation label of its error.
Unlabelled(res) ==
    IF res.kind \in {"OperationFailed", "JobFailed"}
    THEN [res EXCEPT !.operation = ""]
    ELSE res

\* HyperV's and VhdManager's handlers return the same outcome.
HyperVAndVhdManagerAgree ==
    Handling => Unlabelled(frame.outcomes[1]) = Unlabelled(frame.outcomes[2])

\* C32: HyperV's, VhdManager's and VirtualMachine's handling of the same
\* output parameters (status, job reference) and the same answers to the
\* job's polls return the same outcome, the operation label of an
\* OperationFailed or JobFailed apart.
C32_HandlersEquivalent ==
    Handling =>
        /\ Unlabelled(frame.outcomes[1]) = Unlabelled(frame.outcomes[2])
        /\ Unlabelled(frame.outcomes[2]) = Unlabelled(frame.outcomes[3])

\* Status 4096 with an unreadable job reference: HyperV and VhdManager
\* return a conversion error, VirtualMachine success.
UnreadableJobDiverges ==
    /\ Handling
    /\ op.settings.out = [rv |-> Val(Queued), job |-> SBad]
    /\ frame.outcomes[1] = GatewayError("TypeConversion", "String")
    /\ frame.outcomes[3] = Ok

\* With the job reference absent or naming a job, the three agree.
HandlersAgreeOnReadableJob ==
    (Handling /\ op.settings.out.job \in {SNull, SVal("job1")}) =>
        /\ Unlabelled(frame.outcomes[1]) = Unlabelled(frame.outcomes[2])
        /\ Unlabelled(frame.outcomes[2]) = Unlabelled(frame.outcomes[3])

(***************************************************************************)
(* C33: the cached state of a handle.                                      *)
(***************************************************************************)
\* C33: the handle's cached state changes only in the fetch that is the last
\* step of refresh, of a lifecycle operation or of apply_checkpoint, when
\* the fetch succeeds and the operation returns Ok with it, and it becomes
\* the state the gateway reports then; so an operation that fails, a disk,
\* ISO, adapter or checkpoint operation, and a change of the VM's state at
\* the gateway leave it as it was.
C33_CachedStateAtFetch ==
    [][vm' # vm =>
          /\ At("refresh")
          /\ op.name \in Transitions \cup {"refresh"}
          /\ todo' = <<>>
          /\ result' = Ok
          /\ vm' = [vm EXCEPT !.state = Reported(gwEnabled)]]_vars

\* start failed on its job and the handle still has Off cached, while the
\* VM, started through another handle, is running.
C33_Witness ==
    /\ pc = "done"
    /\ op.name = "start"
    /\ result.kind = "JobFailed"
    /\ vm.state = "Off"
    /\ gwEnabled = Val(2)

\* An ISO was mounted on a VM that another handle had turned off; the
\* handle still has Running cached.
MountedWithStaleState ==
    /\ pc = "done"
    /\ op.name = "mount_iso"
    /\ result = Ok
    /\ Len(gwRes) = 3
    /\ vm.state = "Running"
    /\ gwEnabled = Val(3)

(***************************************************************************)
(* C34: create_vm failing after DefineSystem.                              *)
(***************************************************************************)
\* create_vm has returned, its DefineSystem request carried out.
DefinedThenReturned ==
    /\ pc = "done"
    /\ op.name = "create_vm"
    /\ hist.invokes # <<>>
    /\ hist.invokes[1].method = "DefineSystem"
    /\ hist.invokes[1].outcome = "ok"

\* C34: no create_vm issues a DestroySystem request, and once the system of
\* a create_vm is defined at the gateway every later step of the call,
\* failing or not, leaves it there.
C34_DefinedSystemRemains ==
    /\ []((pc = "done" /\ op.name = "create_vm")
            => Requests("DestroySystem") = {})
    /\ [][(op.name = "create_vm" /\ op'.name = "create_vm"
                                  /\ CreatedSystem \in hist.defined)
            => CreatedSystem \in hist'.defined]_vars

\* The system was defined, its memory settings were not found, and create_vm
\* returned VmNotFound; the system is at the gateway.
C34_Witness ==
    /\ DefinedThenReturned
    /\ result.kind = "VmNotFound"
    /\ Len(hist.invokes) = 1
    /\ CreatedSystem \in hist.defined

\* The final refresh failed after the system was configured.
CreatedButRefreshFailed ==
    /\ DefinedThenReturned
    /\ op.settings.generation = "Gen2"
    /\ Len(gwRes) = 1
    /\ result = GatewayError("WmiQuery", "get_object")
    /\ CreatedSystem \in hist.defined

(***************************************************************************)
(* C35: the adapter add_network_adapter returns.                           *)
(***************************************************************************)
\* add_network_adapter returned an adapter.
AdapterReturned ==
    /\ pc = "done"
    /\ op.name = "add_network_adapter"
    /\ result = Ok

\* C35: the adapter a successful add_network_adapter returns is the adapter
\* resource its own AddResourceSettings request added to the VM.
C35_ReturnsAddedAdapter ==
    AdapterReturned => /\ hist.added # 0
                       /\ frame.adapter_path = hist.added

\* The request added an adapter and the call returned one the VM had before.
ReturnedEarlierAdapter ==
    /\ AdapterReturned
    /\ hist.added # 0
    /\ frame.adapter_path < hist.added

\* The request was queued without a job, nothing was added, and the call
\* returned an adapter of the VM.
ReturnedAdapterAddedNothing ==
    /\ AdapterReturned
    /\ hist.added = 0
    /\ hist.invokes[1].outcome = "queued"
    /\ frame.adapter_path \in Adapters(gwRes)

\* The call returned the adapter it added.
ReturnedAddedAdapter ==
    /\ AdapterReturned
    /\ Len(gwRes) > 1
    /\ frame.adapter_path = hist.added

(***************************************************************************)
(* storage/vhd.rs: VhdSettingsBuilder.  The builder under construction is  *)
(* op.settings; with its fields it carries what the caller asked for: the  *)
(* format of the last format call, the count of the last size_gb call.     *)
(***************************************************************************)
MaxSetters == 3

VhdFormat_from_path(path) ==
    IF ends_with(to_lowercase(path), <<".", "v", "h", "d">>) THEN "Vhd" ELSE "Vhdx"

\* A u64 count of gigabytes, wraps * 2^34 + rest with rest < 2^34.
Gigabytes ==
    [wraps : {0, 1}, rest : {0, 1, 2048, 2049, 64 * 1024, 64 * 1024 + 1}]

\* count * 2^30 bytes in MiB, as high * 2^44 + low.
Product(gb) == [high |-> gb.wraps, low |-> gb.rest * 1024]

\* A u64 of bytes in MiB, in the same form.
Stored(size) == [high |-> 0, low |-> size]

\* No path, no format, no count given.
NoPath == [some |-> FALSE, v |-> <<>>]

NoFormat == [some |-> FALSE, v |-> ""]

NoCount == [some |-> FALSE, v |-> [wraps |-> 0, rest |-> 0]]

\* VhdSettingsBuilder::default
VhdSettingsBuilder_default ==
    [path |-> NoPath, format |-> "Vhdx", disk_type |-> "Dynamic", size_bytes |-> None,
     parent_path |-> None, specified |-> NoFormat, counted |-> NoCount, setters |-> 0]

VhdSettingsBuilder_path(self, path) ==
    [self EXCEPT !.format = VhdFormat_from_path(path), !.path = Some(path)]

VhdSettingsBuilder_format(self, format) ==
    [self EXCEPT !.format = format, !.specified = Some(format)]

VhdSettingsBuilder_disk_type(self, disk_type) ==
    [self EXCEPT !.disk_type = disk_type]

VhdSettingsBuilder_size_bytes(self, size) ==
    [self EXCEPT !.size_bytes = Some(size), !.counted = NoCount]

\* gb * 1024 * 1024 * 1024 in u64, the product taken modulo 2^64.
VhdSettingsBuilder_size_gb(self, gb) ==
    [self EXCEPT !.size_bytes = Some(gb.rest * 1024), !.counted = Some(gb)]

VhdSettingsBuilder_parent_path(self, path) ==
    [self EXCEPT !.parent_path = Some(path), !.disk_type = "Differencing"]

\* The settings build makes of the builder.
VhdSettingsBuilder_settings(self) ==
    [path |-> self.path.v, format |-> self.format, disk_type |-> self.disk_type,
     size |-> unwrap_or(self.size_bytes, 0), parent_path |-> self.parent_path,
     logical_sector_size |-> None, physical_sector_size |-> None]

VhdSettingsBuilder_build(self) ==
    IF ~self.path.some THEN GatewayError("MissingRequired", "path")
    ELSE IF VhdSettings_validate(VhdSettingsBuilder_settings(self)) # Valid
    THEN GatewayError("Validation", VhdSettings_validate(VhdSettingsBuilder_settings(self)))
    ELSE Ok

\* The thread panicked: arithmetic overflow with overflow checks on.
Panic == GatewayError("Panic", "attempt to multiply with overflow")

BuilderPaths == {VhdFilePath, DiskPath, <<"d", ".", "i", "s", "o">>}

\* VhdSettings::builder()
vhd_builder ==
    /\ op.name = "idle"
    /\ op' = [Idle EXCEPT !.name = "VhdSettingsBuilder",
                          !.settings = VhdSettingsBuilder_default]
    /\ todo' = <<Step("vhd_setter", "")>>
    /\ result' = NoResult
    /\ hist' = NoHist
    /\ frame' = NoFrame
    /\ UNCHANGED <<vm, gwEnabled, gwJob, gwRes, gwPending, last, peer, com>>

\* The setter gives the builder b back.
vhd_set(b) ==
    /\ op.settings.setters < MaxSetters
    /\ op' = [op EXCEPT !.settings = [b EXCEPT !.setters = @ + 1]]
    /\ UNCHANGED <<vm, gwEnabled, gwJob, todo, result, hist, gwRes, gwPending, frame,
                   last, peer, com>>

vhd_path ==
    /\ At("vhd_setter")
    /\ \E path \in BuilderPaths : vhd_set(VhdSettingsBuilder_path(op.settings, path))

vhd_format ==
    /\ At("vhd_setter")
    /\ \E format \in {"Vhd", "Vhdx"} :
         vhd_set(VhdSettingsBuilder_format(op.settings, format))

vhd_disk_type ==
    /\ At("vhd_setter")
    /\ \E disk_type \in {"Fixed", "Differencing"} :
         vhd_set(VhdSettingsBuilder_disk_type(op.settings, disk_type))

vhd_size_bytes ==
    /\ At("vhd_setter")
    /\ \E size \in {0, VhdMaxSize + 1} :
         vhd_set(VhdSettingsBuilder_size_bytes(op.settings, size))

\* size_gb.  A product of 2^64 or more panics where overflow checks are on
\* (the dev profile) and wraps where they are off (the release profile).
vhd_size_gb ==
    /\ At("vhd_setter")
    /\ \E gb \in Gigabytes :
         \/ vhd_set(VhdSettingsBuilder_size_gb(op.settings, gb))
         \/ /\ gb.wraps > 0
            /\ op.settings.setters < MaxSetters
            /\ op' = [op EXCEPT !.settings.counted = Some(gb)]
            /\ todo' = <<>>
            /\ result' = Panic
            /\ UNCHANGED <<vm, gwEnabled, gwJob, hist, gwRes, gwPending, frame,
                           last, peer, com>>

vhd_parent_path ==
    /\ At("vhd_setter")
    /\ vhd_set(VhdSettingsBuilder_parent_path(op.settings, 1))

vhd_build ==
    /\ At("vhd_setter")
    /\ todo' = <<>>
    /\ result' = VhdSettingsBuilder_build(op.settings)
    /\ UNCHANGED <<vm, gwEnabled, gwJob, op, hist, gwRes, gwPending, frame,
                   last, peer, com>>

NextVhdBuilder ==
    \/ vhd_builder
    \/ vhd_path
    \/ vhd_format
    \/ vhd_disk_type
    \/ vhd_size_bytes
    \/ vhd_size_gb
    \/ vhd_parent_path
    \/ vhd_build
    \/ call_returns

SpecVhdBuilder == InitSettings /\ [][NextVhdBuilder]_vars

(***************************************************************************)
(* C36: size_gb.                                                           *)
(***************************************************************************)
\* build has returned for a builder whose size was last set by size_gb.
BuiltWithCount ==
    /\ pc = "done"
    /\ op.name = "VhdSettingsBuilder"
    /\ op.settings.counted.some

\* The cap of the format the builder has.
BuilderFormatCap == IF op.settings.format = "Vhd" THEN VhdMaxSize ELSE VhdxMaxSize

\* The product of the count is above the cap.
CountAboveCap ==
    \/ Product(op.settings.counted.v).high > 0
    \/ Product(op.settings.counted.v).low > BuilderFormatCap

\* C36: size_gb stores count * 2^30 for every u64 count, neither wrapped
\* nor aborting, and a build with a count above the cap of the format fails
\* with a validation error.
C36_SizeGbExact ==
    BuiltWithCount =>
        /\ result # Panic
        /\ Stored(op.settings.size_bytes.v) = Product(op.settings.counted.v)
        /\ CountAboveCap => result.kind = "Validation"

\* A count of 2^34 + 1 was stored as one gigabyte and the build succeeded.
WrappedCountBuilt ==
    /\ BuiltWithCount
    /\ op.settings.counted.v = [wraps |-> 1, rest |-> 1]
    /\ op.settings.size_bytes = Some(1024)
    /\ result = Ok

\* size_gb panicked.
CountPanicked ==
    /\ BuiltWithCount
    /\ result = Panic

\* A count below 2^34 above the cap: the build fails in validation.
CountAboveCapRefused ==
    /\ BuiltWithCount
    /\ op.settings.counted.v = [wraps |-> 0, rest |-> 2049]
    /\ op.settings.format = "Vhd"
    /\ result = GatewayError("Validation", "size_bytes")

(***************************************************************************)
(* C38: the format of the built settings.                                  *)
(***************************************************************************)
\* build has returned settings.
VhdSettingsBuilt ==
    /\ pc = "done"
    /\ op.name = "VhdSettingsBuilder"
    /\ result = Ok

\* C38: the built format is the format the caller specified, in whichever
\* order format and path were called, and the format detected from the path
\* when none was specified.
C38_ExplicitFormatKept ==
    VhdSettingsBuilt =>
        op.settings.format = IF op.settings.specified.some
                             THEN op.settings.specified.v
                             ELSE VhdFormat_from_path(op.settings.path.v)

\* format(Vhd) was called before path("d.vhdx"): the settings are built as
\* Vhdx.
SpecifiedFormatReplaced ==
    /\ VhdSettingsBuilt
    /\ op.settings.specified = Some("Vhd")
    /\ op.settings.path = Some(DiskPath)
    /\ op.settings.format = "Vhdx"

\* The format was specified and is the built one.
SpecifiedFormatBuilt ==
    /\ VhdSettingsBuilt
    /\ op.settings.specified = Some("Vhd")
    /\ op.settings.format = "Vhd"

\* No format was specified: the built one is detected from the path.
DetectedFormatBuilt ==
    /\ VhdSettingsBuilt
    /\ ~op.settings.specified.some
    /\ op.settings.format = "Vhd"

(***************************************************************************)
(* network/adapter.rs: NetworkAdapterSettingsBuilder.  The builder under   *)
(* construction is op.settings; with its fields it carries the number of   *)
(* setters called and whether mac_address or dynamic_mac was among them.   *)
(***************************************************************************)
\* NetworkAdapterSettingsBuilder::default (derived): every field the default
\* of its type.
NetworkAdapterSettingsBuilder_default ==
    [name |-> None, switch_name |-> NoSwitch, mac_address |-> NoMac,
     dynamic_mac |-> FALSE, vlan_id |-> None, mac_set |-> FALSE, setters |-> 0]

\* NetworkAdapterSettingsBuilder::new
NetworkAdapterSettingsBuilder_new ==
    [NetworkAdapterSettingsBuilder_default EXCEPT !.dynamic_mac = TRUE]

\* NetworkAdapterSettings::default
NetworkAdapterSettings_default ==
    [name |-> None, switch_name |-> NoSwitch, mac_address |-> NoMac,
     dynamic_mac |-> TRUE, vlan_id |-> None]

\* NetworkAdapterSettings::builder: the derived default of the builder.
NetworkAdapterSettings_builder == NetworkAdapterSettingsBuilder_default

NetworkAdapterSettingsBuilder_name(self, name) == [self EXCEPT !.name = Some(name)]

NetworkAdapterSettingsBuilder_mac_address(self, mac) ==
    [self EXCEPT !.mac_address = Some(mac), !.dynamic_mac = FALSE, !.mac_set = TRUE]

NetworkAdapterSettingsBuilder_dynamic_mac(self, dynamic) ==
    [self EXCEPT !.dynamic_mac = dynamic,
                 !.mac_address = IF dynamic THEN NoMac ELSE @,
                 !.mac_set = TRUE]

NetworkAdapterSettingsBuilder_vlan_id(self, vlan) == [self EXCEPT !.vlan_id = Some(vlan)]

NetworkAdapterSettingsBuilder_build(self) ==
    IF NetworkAdapterSettings_validate(self) # Valid
    THEN GatewayError("Validation", NetworkAdapterSettings_validate(self))
    ELSE Ok

\* NetworkAdapterSettings::builder() or NetworkAdapterSettingsBuilder::new()
adapter_builder ==
    /\ op.name = "idle"
    /\ \E entry \in {"builder", "new"} :
         op' = [Idle EXCEPT !.name = "NetworkAdapterSettingsBuilder", !.arg = entry,
                            !.settings = IF entry = "new"
                                         THEN NetworkAdapterSettingsBuilder_new
                                         ELSE NetworkAdapterSettings_builder]
    /\ todo' = <<Step("adapter_setter", "")>>
    /\ result' = NoResult
    /\ hist' = NoHist
    /\ frame' = NoFrame
    /\ UNCHANGED <<vm, gwEnabled, gwJob, gwRes, gwPending, last, peer, com>>

\* The setter gives the builder b back.
adapter_set(b) ==
    /\ op.settings.setters < MaxSetters
    /\ op' = [op EXCEPT !.settings = [b EXCEPT !.setters = @ + 1]]
    /\ UNCHANGED <<vm, gwEnabled, gwJob, todo, result, hist, gwRes, gwPending, frame,
                   last, peer, com>>

adapter_name ==
    /\ At("adapter_setter")
    /\ adapter_set(NetworkAdapterSettingsBuilder_name(op.settings, 1))

adapter_mac_address ==
    /\ At("adapter_setter")
    /\ \E mac \in {Mac, SubSeq(Mac, 1, 14)} :
         adapter_set(NetworkAdapterSettingsBuilder_mac_address(op.settings, mac))

adapter_dynamic_mac ==
    /\ At("adapter_setter")
    /\ \E dynamic \in BOOLEAN :
         adapter_set(NetworkAdapterSettingsBuilder_dynamic_mac(op.settings, dynamic))

adapter_vlan_id ==
    /\ At("adapter_setter")
    /\ \E vlan \in {4094, 4095} :
         adapter_set(NetworkAdapterSettingsBuilder_vlan_id(op.settings, vlan))

adapter_build ==
    /\ At("adapter_setter")
    /\ todo' = <<>>
    /\ result' = NetworkAdapterSettingsBuilder_build(op.settings)
    /\ UNCHANGED <<vm, gwEnabled, gwJob, op, hist, gwRes, gwPending, frame,
                   last, peer, com>>

NextAdapterBuilder ==
    \/ adapter_builder
    \/ adapter_name
    \/ adapter_mac_address
    \/ adapter_dynamic_mac
    \/ adapter_vlan_id
    \/ adapter_build
    \/ call_returns

SpecAdapterBuilder == InitSettings /\ [][NextAdapterBuilder]_vars

(***************************************************************************)
(* C37: dynamic_mac of built adapter settings.                             *)
(***************************************************************************)
\* build has returned settings.
AdapterSettingsBuilt ==
    /\ pc = "done"
    /\ op.name = "NetworkAdapterSettingsBuilder"
    /\ result = Ok

\* C37: built adapter settings have dynamic_mac false only with a MAC
\* address, from either entry point and after any setters; a builder on
\* which neither mac_address nor dynamic_mac was called builds dynamic_mac
\* true, as NetworkAdapterSettings::default has it.
C37_StaticMacHasAddress ==
    AdapterSettingsBuilt =>
        /\ ~op.settings.dynamic_mac => op.settings.mac_address.some
        /\ ~op.settings.mac_set =>
              op.settings.dynamic_mac = NetworkAdapterSettings_default.dynamic_mac

\* NetworkAdapterSettings::builder().name(..).build(): a static MAC without
\* an address.
BuilderWithoutMacIsStatic ==
    /\ AdapterSettingsBuilt
    /\ op.arg = "builder"
    /\ ~op.settings.mac_set
    /\ ~op.settings.dynamic_mac
    /\ ~op.settings.mac_address.some

\* NetworkAdapterSettingsBuilder::new().dynamic_mac(false).build()
NewMadeStaticWithoutAddress ==
    /\ AdapterSettingsBuilt
    /\ op.arg = "new"
    /\ ~op.settings.dynamic_mac
    /\ ~op.settings.mac_address.some

\* From new, without a MAC setter: dynamic.
NewWithoutMacIsDynamic ==
    /\ AdapterSettingsBuilt
    /\ op.arg = "new"
    /\ ~op.settings.mac_set
    /\ op.settings.dynamic_mac

\* A static address, cleared again by dynamic_mac(true).
StaticMacCleared ==
    /\ AdapterSettingsBuilt
    /\ op.settings.setters = 2
    /\ op.settings.mac_set
    /\ op.settings.dynamic_mac
    /\ ~op.settings.mac_address.some

(***************************************************************************)
(* C39: the memory settings create_vm submits.                             *)
(***************************************************************************)
\* create_vm has submitted the memory settings: its ModifyResourceSettings
\* request for them is the second invocation of the call.
MemorySubmitted ==
    /\ op.name = "create_vm"
    /\ Len(hist.invokes) >= 2
    /\ hist.invokes[2].method = "ModifyResourceSettings"

\* C39: the memory settings create_vm submits have Reservation <=
\* VirtualQuantity <= Limit; all three are the startup memory when dynamic
\* memory is off; with dynamic memory, Reservation is the minimum and Limit
\* the maximum where the settings give them.
C39_MemoryOrdered ==
    MemorySubmitted =>
        LET doc == frame.memory
            settings == op.settings
        IN  /\ doc.Reservation <= doc.VirtualQuantity
            /\ doc.VirtualQuantity <= doc.Limit
            /\ doc.VirtualQuantity = settings.memory_mb
            /\ ~settings.dynamic_memory =>
                  /\ doc.Reservation = settings.memory_mb
                  /\ doc.Limit = settings.memory_mb
            /\ settings.dynamic_memory =>
                  /\ doc.Reservation = unwrap_or(settings.dynamic_memory_min_mb,
                                                 settings.memory_mb)
                  /\ doc.Limit = unwrap_or(settings.dynamic_memory_max_mb,
                                           settings.memory_mb)

\* Dynamic memory from 512 to 8192 MB around 4096 MB was submitted.
C39_Witness ==
    /\ MemorySubmitted
    /\ op.settings.dynamic_memory
    /\ frame.memory.Reservation = 512
    /\ frame.memory.VirtualQuantity = 4096
    /\ frame.memory.Limit = 8192
    /\ frame.memory.DynamicMemoryEnabled

\* Static memory was submitted.
StaticMemorySubmitted ==
    /\ MemorySubmitted
    /\ ~op.settings.dynamic_memory
    /\ frame.memory.Reservation = frame.memory.Limit
    /\ ~frame.memory.DynamicMemoryEnabled

(***************************************************************************)
(* hyperv.rs: HyperV::delete_vm, on handles in every cached state.         *)
(***************************************************************************)
\* delete_vm: the management service, the query of the VM's settings, the
\* DestroySystem request and its job.
delete_vm_body ==
    <<Step("mgmt_service", ""), Step("vm_settings", ""),
      Step("params", "DestroySystem"), Step("hv_exec", "DestroySystem")>>

\* delete_vm refusing a running VM only.
delete_vm_unless_running ==
    Enter([Idle EXCEPT !.name = "delete_vm"],
          vm.state # "Running",
          InvalidState(vm.name, to_error(vm.state), "delete"),
          delete_vm_body)

delete_vm ==
    Enter([Idle EXCEPT !.name = "delete_vm"],
          vm.state = "Off",
          InvalidState(vm.name, to_error(vm.state), "delete"),
          delete_vm_body)

NextDelete ==
    \/ delete_vm
    \/ refresh
    \/ refresh_step
    \/ get_management_service
    \/ get_vm_settings
    \/ get_method_params
    \/ hv_exec
    \/ hv_wait_for_job
    \/ job_progress
    \/ call_returns

SpecDelete == Init /\ [][NextDelete]_vars

(***************************************************************************)
(* C40: delete_vm and the cached state.                                    *)
(***************************************************************************)
\* C40: delete_vm on a handle whose cached state is not Off returns
\* InvalidState with the VM's name, the cached state and "delete" without a
\* gateway round trip, and a DestroySystem request of delete_vm is issued
\* only with cached state Off.
C40_DeleteOnlyWhenOff ==
    /\ (op.name = "delete_vm" /\ vm.state # "Off") =>
          /\ pc = "done"
          /\ result = InvalidState(vm.name, to_error(vm.state), "delete")
          /\ ~hist.touched
          /\ hist.invokes = <<>>
    /\ (op.name = "delete_vm" /\ Requests("DestroySystem") # {}) => vm.state = "Off"

\* delete_vm refused a paused VM.
C40_Witness ==
    /\ op.name = "delete_vm"
    /\ pc = "done"
    /\ vm.state = "Paused"
    /\ result = InvalidState(vm.name, <<"Paused", 0>>, "delete")
    /\ hist.invokes = <<>>

\* delete_vm on a VM cached Off: the request completed and the system is
\* gone from the gateway.
DeletedWhenOff ==
    /\ op.name = "delete_vm"
    /\ pc = "done"
    /\ vm.state = "Off"
    /\ result = Ok
    /\ Requests("DestroySystem") = {1}
    /\ hist.destroyed = {TestSystem}

\* The handle says Off while the gateway has the VM running: the request is
\* issued.
DeleteOnStaleOff ==
    /\ op.name = "delete_vm"
    /\ vm.state = "Off"
    /\ gwEnabled = Val(2)
    /\ Requests("DestroySystem") = {1}

=============================================================================
